---- MODULE Spec2Model ----
(***************************************************************************)
(* German apartment alerts: the scraping orchestrator, the checkpoint      *)
(* engine, the provider error state and the iteration tracker.             *)
(*                                                                         *)
(* A listing is the record its provider normalises a raw record into; the  *)
(* model keeps the two fields the orchestrator reads: hash and source.     *)
(* One user is polled; its repository rows are checkpoints[provider].      *)
(***************************************************************************)
EXTENDS Integers, Sequences, FiniteSets, TLC

\* ---------------------------------------------------------------- bounds
NumHashes == 2
MaxFanRaw == 3
MaxBrowserRaw == 1
MaxErrors == 3
MaxIterations == 6
MaxAlerts == 2
MaxPages == 3
MaxClock == 3
MaxCycles == 3

\* ------------------------------------------------------ program constants
maxResultsPerProvider == 10
CHECKPOINT_COUNT == 5
CONSECUTIVE_FAILURES_THRESHOLD == 4

Hashes == 1..NumHashes

\* the longest source list of the single-provider runs: one record more than
\* a checkpoint holds
MaxRaw == CHECKPOINT_COUNT + 1

Min(a, b) == IF a < b THEN a ELSE b

\* Array.prototype.slice(0, n)
Slice(s, n) == SubSeq(s, 1, Min(n, Len(s)))

SeqsUpTo(S, n) == UNION {[1..k -> S] : k \in 0..n}

\* ------------------------------------------------------------- providers
\* normalizeListing: the canonical record of a raw record (hash, source)
normalizeListing(raw, source) == [hash |-> raw.hash, source |-> source]

\* isValidListing: link present, no 'undefined' in it, and a title or a price
isValidListing(raw) == raw.valid

FilterValid(raws) == SelectSeq(raws, isValidListing)

\* a handleError that forgets to count
handleErrorNoCount(errors) == errors

\* BaseProvider.handleError: one more consecutive error
handleError(errors) == errors + 1

\* BaseProvider.resetErrors
resetErrors(errors) == 0

\* What a scrape call leaves behind: the returned list, the provider's
\* counter, and whether the call rejected instead of returning.
Returned(listings, errors) == [listings |-> listings, errors |-> errors, threw |-> FALSE]

\* BrowserBasedProvider.scrape. env.url: whether new URL(fullUrl) succeeds;
\* env.call: outcome of browserService.scrape; env.raw: the raw records.
BrowserScrape(name, env, errors, maxResults) ==
  IF ~env.url \/ env.call # "ok" THEN Returned(<<>>, handleError(errors))
  ELSE LET validListings == FilterValid(env.raw)
           listings == [i \in 1..Len(Slice(validListings, maxResults)) |->
                          normalizeListing(validListings[i], name)]
       IN  IF Len(env.raw) = 0 THEN Returned(<<>>, handleError(errors))
           ELSE Returned(listings, resetErrors(errors))

\* ImmoScoutProvider.scrape (SueddeutscheProvider and DeutscheBankProvider
\* have the same shape): the URL fallback never fails, an empty answer throws
\* inside the try block.
ImmoScoutScrape(name, env, errors, maxResults) ==
  IF env.call # "ok" \/ Len(env.raw) = 0 THEN Returned(<<>>, handleError(errors))
  ELSE Returned([i \in 1..Len(Slice(env.raw, maxResults)) |->
                   normalizeListing(env.raw[i], name)], resetErrors(errors))

\* SparkasseProvider.scrape. normalizeUrl falls back to string edits when the
\* URL does not parse; env.call: outcome of fetch ("httpError": !response.ok);
\* env.nextData: the page carries props.pageProps.firstPageEstates.
SparkasseScrape(name, env, errors, maxResults) ==
  IF env.call # "ok" \/ ~env.nextData THEN Returned(<<>>, handleError(errors))
  ELSE IF Len(env.raw) = 0 THEN Returned(<<>>, errors)
  ELSE Returned([i \in 1..Len(Slice(env.raw, maxResults)) |->
                   normalizeListing(env.raw[i], name)], resetErrors(errors))

\* PlanetHomeProvider.parseUrlParams: null when the URL does not parse or
\* carries no locationId
parseUrlParams(env) == env.url /\ env.locationId

\* PlanetHomeProvider.scrape. env.loc / env.loc2: getAllLocationsData ("ok",
\* "none": no location resolved, "throw": the cache lookup throws); env.fetch /
\* env.fetch2: fetchProperties ("ok", "error", "locationError": an error whose
\* message isLocationError matches); env.invalidate: invalidateAllLocations.
PlanetHomeScrape(name, env, errors, maxResults) ==
  LET listings == [i \in 1..Len(Slice(env.raw, maxResults)) |->
                     normalizeListing(env.raw[i], name)]
  IN  IF ~parseUrlParams(env) THEN Returned(<<>>, errors)
      ELSE IF env.loc # "ok" THEN Returned(<<>>, handleError(errors))
      ELSE IF env.fetch = "locationError"
           THEN IF env.invalidate # "ok" \/ env.loc2 # "ok" \/ env.fetch2 # "ok"
                THEN Returned(<<>>, handleError(errors))
                ELSE Returned(listings, resetErrors(errors))
      ELSE IF env.fetch = "error" THEN Returned(<<>>, handleError(errors))
      ELSE Returned(listings, resetErrors(errors))

\* ------------------------------------------------------ checkpoint engine
\* ScrapingService.findNewListings
RECURSIVE WalkUntilMatch(_, _)
WalkUntilMatch(listings, checkpointSet) ==
  IF listings = <<>> THEN <<>>
  ELSE IF Head(listings).hash \in checkpointSet THEN <<>>
  ELSE <<Head(listings)>> \o WalkUntilMatch(Tail(listings), checkpointSet)

\* a first run that announces the whole scrape
findNewListingsFlood(listings, checkpointSet) ==
  IF Cardinality(checkpointSet) = 0 THEN listings
  ELSE WalkUntilMatch(listings, checkpointSet)

\* a set difference instead of the walk that stops at the first match
findNewListingsDifference(listings, checkpointSet) ==
  IF Cardinality(checkpointSet) = 0 THEN Slice(listings, 1)
  ELSE SelectSeq(listings, LAMBDA l : l.hash \notin checkpointSet)

\* a walk capped at the size of a checkpoint
findNewListingsCapped(listings, checkpointSet) ==
  IF Cardinality(checkpointSet) = 0 THEN Slice(listings, 1)
  ELSE Slice(WalkUntilMatch(listings, checkpointSet), CHECKPOINT_COUNT)

findNewListings(listings, checkpointSet) ==
  IF Cardinality(checkpointSet) = 0 THEN Slice(listings, 1)
  ELSE WalkUntilMatch(listings, checkpointSet)

\* a checkpoint of the oldest listing of the scrape alone
newCheckpointsOldest(listings) == <<listings[Len(listings)].hash>>

\* a checkpoint of every hash of the scrape
newCheckpointsUncut(listings) == [i \in 1..Len(listings) |-> listings[i].hash]

\* listings.slice(0, CHECKPOINT_COUNT).map((l) => l.hash)
newCheckpoints(listings) ==
  [i \in 1..Len(Slice(listings, CHECKPOINT_COUNT)) |-> listings[i].hash]

\* an unguarded checkpoint update
updatesCheckpointAlways(listings) == TRUE

\* the guard of the checkpoint update: if (listings.length > 0)
updatesCheckpoint(listings) == Len(listings) > 0

\* new Set(checkpointHashes)
SetOf(s) == {s[i] : i \in 1..Len(s)}

\* ------------------------------------------------------------------ state
Providers == {"A", "B"}

VARIABLES
  reload,             \* start() was given a userLoader: providers are rebuilt every tick
  checkpoints,        \* the repository: provider -> stored hashes of the user
  consecutiveErrors,  \* BaseProvider.consecutiveErrors of each provider object
  pass,               \* scrapeForUser: "idle", "running", "returned"
  task,               \* the async callback of each enabled provider
  byProvider,         \* Map provider name -> listings, in insertion order
  allNewListings,
  providerStatuses,
  result,             \* the UserScrapeResult handed to onUserResult
  setCalls,           \* history: setCheckpoints calls of the pass, per provider
  provider,           \* one provider object on its own: variant and counter
  last,               \* history: the last scrape call made on that object
  currentIterationErrors,       \* MonitoringService: Map provider -> user keys
  consecutiveFailedIterations,
  notifiedForCurrentStreak,
  errorAlertsEnabled,
  monitor,            \* history of the iteration tracker
  browser,            \* BrowserService.browser: 0 is null, else the session held
  sessions,           \* the browser sessions launched and still live
  pages,              \* the pages open in those sessions
  scrapeCall,         \* the BrowserService.scrape call of each caller
  now,                \* Date.now()
  hashed,             \* history: the last two normalizeListing calls
  intervalId,         \* WatchListingsUseCase.intervalId: armed or null
  startCall,          \* WatchListingsUseCase.start: where the call stands
  cycle,              \* the scrapeAllUsers runs, the initial one first
  process,            \* the process and what main().catch / stop() have seen
  sources,            \* the source URL of each provider object of the user
  poll,               \* one search over the polling cycles: where the cycle stands
  extraction,         \* the last BrowserService.scrape evaluation: page and result
  scraped,            \* the last provider scrape seen record by record
  passes,             \* the passes of overlapping cycles over one pair
  pairLog             \* history of that pair since its checkpoint was cleared

passVars == <<reload, checkpoints, consecutiveErrors, pass, task, byProvider,
          allNewListings, providerStatuses, result, setCalls>>

providerVars == <<provider, last>>

monitoringVars == <<currentIterationErrors, consecutiveFailedIterations,
                    notifiedForCurrentStreak, errorAlertsEnabled, monitor>>

browserVars == <<browser, sessions, pages, scrapeCall>>

hashVars == <<now, hashed>>

schedulerVars == <<intervalId, startCall, cycle, process>>

pollVars == <<sources, poll>>

contentVars == <<extraction, scraped>>

overlapVars == <<passes, pairLog>>

serviceVars == <<browserVars, hashVars, schedulerVars, pollVars, contentVars,
                 overlapVars>>

vars == <<passVars, providerVars, monitoringVars, serviceVars>>

\* The callers of BrowserService.scrape: the browser providers of one user.
Callers == {1, 2}

\* No scrape call of the browser service is in flight.
NoCalls == [c \in Callers |-> "idle"]

\* The process as App.run leaves it before start() is called. awaited: the
\* start() call is awaited by App.startWatching (and through it by main),
\* not issued from the timer callback of App.waitForUsers.
NewProcess(awaited) ==
  [state |-> "running", awaited |-> awaited, stopped |-> FALSE,
   startedAfterStop |-> FALSE, repositoryFailed |-> FALSE, critical |-> FALSE,
   unhandled |-> FALSE]

\* every provider object of the user has a source URL
AllEnabled == [p \in Providers |-> "url"]

\* no polling cycle has started
NoPoll == [pc |-> "idle"]

\* the concurrent passes over one pair
Slots == {1, 2}

\* url: the search URL the cycle loaded; overlaps: history, the pass in the
\* other slot was in flight together with this one; firstOfUrl: history, no
\* scrape of the URL now saved had settled before the scrape of this pass
NoPass == [pc |-> "off", listings |-> <<>>, firstRun |-> FALSE, newListings |-> <<>>,
           url |-> "url", overlaps |-> FALSE, firstOfUrl |-> FALSE]

NoPasses == [s \in Slots |-> NoPass]

\* The bookkeeping of one (user, provider) pair. firstRuns, emptyPasses:
\* history since its checkpoint was last cleared, the non-empty and the empty
\* passes answered with an empty checkpoint; lastDone: history, the list of
\* the pass that ended last; urlScraped: history, a scrape of the URL now
\* saved has settled; bot: where the handler that saves a URL stands.
NoPairLog == [firstRuns |-> 0, emptyPasses |-> 0, lastDone |-> <<>>,
              urlScraped |-> TRUE, bot |-> "idle"]

NoResult == [allListings |-> <<>>, newListings |-> <<>>, byProvider |-> <<>>,
             providerStatuses |-> <<>>]

\* scrapes: history, the provider.scrape calls the callback has made
NoTask == [pc |-> "off", failed |-> FALSE, listings |-> <<>>,
           checkpointHashes |-> <<>>, firstRun |-> FALSE, newListings |-> <<>>,
           scrapes |-> 0]

\* The provider objects of the user: A is an API provider (ImmoScout),
\* B a browser provider (Immowelt, Kleinanzeigen, ...).
scrape(p, env, errors, maxResults) ==
  IF p = "A" THEN ImmoScoutScrape(p, env, errors, maxResults)
  ELSE BrowserScrape(p, env, errors, maxResults)

\* What the outside world can answer to one scrape call of provider p.
ApiEnvs(n) ==
  {[url |-> TRUE, call |-> c, raw |-> r] :
     c \in {"ok", "throw"}, r \in SeqsUpTo([hash : Hashes], n)}

BrowserEnvs(n) ==
  {[url |-> u, call |-> c, raw |-> r] :
     u \in BOOLEAN, c \in {"ok", "throw"},
     r \in SeqsUpTo([hash : Hashes, valid : BOOLEAN], n)}

\* history: the answer makes the provider's underlying call fail (the URL
\* cannot be parsed, the call throws, or nothing at all comes back)
Failed(p, env) == ~env.url \/ env.call # "ok" \/ Len(env.raw) = 0

Envs(p, n) == IF p = "A" THEN ApiEnvs(n) ELSE BrowserEnvs(n)

\* Array.from(byProvider.values()).flat()
RECURSIVE Flat(_)
Flat(entries) ==
  IF entries = <<>> THEN <<>> ELSE Head(entries).listings \o Flat(Tail(entries))

\* byProvider.set(name, listings)
MapSet(entries, name, listings) ==
  IF \E i \in 1..Len(entries) : entries[i].name = name
  THEN [i \in 1..Len(entries) |->
          IF entries[i].name = name THEN [name |-> name, listings |-> listings]
          ELSE entries[i]]
  ELSE Append(entries, [name |-> name, listings |-> listings])

\* a status whose health ignores the scrape count
ProviderStatusByErrors(name, listings, errors) ==
  [name |-> name, enabled |-> TRUE, lastScrapeCount |-> Len(listings),
   consecutiveErrors |-> errors, healthy |-> (errors = 0)]

\* the ProviderStatus built at the end of the callback
ProviderStatus(name, listings, errors) ==
  [name |-> name, enabled |-> TRUE, lastScrapeCount |-> Len(listings),
   consecutiveErrors |-> errors,
   healthy |-> (errors = 0 /\ Len(listings) > 0)]

\* ------------------------------------------------------------ scrapeForUser
\* The process has started: an empty repository, fresh provider objects; the
\* parts not exercised by a specification stay as constructed.
Init ==
  /\ browser = 0
  /\ sessions = {}
  /\ pages = 0
  /\ scrapeCall = NoCalls
  /\ now = 1
  /\ hashed = <<>>
  /\ intervalId = FALSE
  /\ startCall = "notCalled"
  /\ cycle = <<>>
  /\ process = NewProcess(TRUE)
  /\ reload \in BOOLEAN
  /\ checkpoints = [p \in Providers |-> <<>>]
  /\ consecutiveErrors = [p \in Providers |-> 0]
  /\ pass = "idle"
  /\ task = [p \in Providers |-> NoTask]
  /\ byProvider = <<>>
  /\ allNewListings = <<>>
  /\ providerStatuses = <<>>
  /\ result = NoResult
  /\ setCalls = [p \in Providers |-> 0]
  /\ provider = [variant |-> "none", consecutiveErrors |-> 0, streak |-> 0]
  /\ last = [called |-> FALSE]
  /\ sources = AllEnabled
  /\ poll = NoPoll
  /\ extraction = [called |-> FALSE]
  /\ scraped = [called |-> FALSE]
  /\ passes = NoPasses
  /\ pairLog = NoPairLog
  /\ currentIterationErrors = <<>>
  /\ consecutiveFailedIterations = 0
  /\ notifiedForCurrentStreak = FALSE
  /\ errorAlertsEnabled = TRUE
  /\ monitor = [lastEnd |-> "none", streakAlerts |-> 0, alertedAt |-> 0,
                enabledAtThreshold |-> FALSE, alertsSent |-> 0, resets |-> FALSE,
                disabledInStreak |-> FALSE, recorded |-> {}, repeated |-> FALSE,
                reenabled |-> "no", alertedBefore |-> FALSE]

\* scrapeForUser is entered: the enabled providers P are mapped to callbacks,
\* each of which runs up to its first await (provider.scrape).
StartPass(P) ==
  /\ pass # "running"
  /\ pass' = "running"
  /\ consecutiveErrors' =
       IF reload THEN [p \in Providers |-> 0] ELSE consecutiveErrors
  /\ task' = [p \in Providers |->
                IF p \in P THEN [NoTask EXCEPT !.pc = "scrape"] ELSE NoTask]
  /\ byProvider' = <<>>
  /\ allNewListings' = <<>>
  /\ providerStatuses' = <<>>
  /\ result' = NoResult
  /\ setCalls' = [p \in Providers |-> 0]
  /\ UNCHANGED <<reload, checkpoints, providerVars, monitoringVars, serviceVars>>

\* provider.scrape(maxResults) settles; byProvider.set; getCheckpoints is issued
ScrapeReturns(p, n) ==
  /\ pass = "running"
  /\ task[p].pc = "scrape"
  /\ \E env \in Envs(p, n) :
       LET r == scrape(p, env, consecutiveErrors[p], maxResultsPerProvider) IN
       /\ r.errors <= MaxErrors
       /\ consecutiveErrors' = [consecutiveErrors EXCEPT ![p] = r.errors]
       /\ IF r.threw
          THEN /\ task' = [task EXCEPT ![p].pc = "rejected",
                                       ![p].scrapes = @ + 1]
               /\ UNCHANGED byProvider
          ELSE /\ task' = [task EXCEPT ![p].pc = "getCheckpoints",
                                       ![p].scrapes = @ + 1,
                                       ![p].failed = Failed(p, env),
                                       ![p].listings = r.listings]
               /\ byProvider' = MapSet(byProvider, p, r.listings)
  /\ UNCHANGED <<reload, checkpoints, pass, allNewListings, providerStatuses,
                 result, setCalls, providerVars, monitoringVars, serviceVars>>

\* Array.prototype.reverse
Reverse(s) == [i \in 1..Len(s) |-> s[Len(s) + 1 - i]]

\* a callback that puts its new listings in front, one unshift per listing
FinishUnshift(p, newListings) ==
  /\ allNewListings' = Reverse(newListings) \o allNewListings
  /\ providerStatuses' =
       Append(providerStatuses,
              ProviderStatus(p, task[p].listings, consecutiveErrors[p]))

\* the rest of the callback once the checkpoint no longer has to be written
Finish(p, newListings) ==
  /\ allNewListings' = allNewListings \o newListings
  /\ providerStatuses' =
       Append(providerStatuses,
              ProviderStatus(p, task[p].listings, consecutiveErrors[p]))

\* getCheckpoints settles: findNewListings, then either setCheckpoints is
\* issued (a non-empty scrape) or the callback runs to its end
GetCheckpointsReturns(p) ==
  /\ pass = "running"
  /\ task[p].pc = "getCheckpoints"
  /\ LET checkpointHashes == checkpoints[p]
         newListings == findNewListings(task[p].listings, SetOf(checkpointHashes))
     IN  IF updatesCheckpoint(task[p].listings)
         THEN /\ task' = [task EXCEPT ![p].pc = "setCheckpoints",
                                      ![p].checkpointHashes = checkpointHashes,
                                      ![p].firstRun = (checkpointHashes = <<>>),
                                      ![p].newListings = newListings]
              /\ UNCHANGED <<allNewListings, providerStatuses>>
         ELSE /\ task' = [task EXCEPT ![p].pc = "done",
                                      ![p].firstRun = (checkpointHashes = <<>>),
                                      ![p].newListings = newListings]
              /\ Finish(p, newListings)
  /\ UNCHANGED <<reload, checkpoints, consecutiveErrors, pass, byProvider,
                 result, setCalls, providerVars, monitoringVars, serviceVars>>

\* setCheckpoints settles: the row is overwritten, the callback runs to its end
SetCheckpointsReturns(p) ==
  /\ pass = "running"
  /\ task[p].pc = "setCheckpoints"
  /\ checkpoints' = [checkpoints EXCEPT ![p] = newCheckpoints(task[p].listings)]
  /\ setCalls' = [setCalls EXCEPT ![p] = @ + 1]
  /\ task' = [task EXCEPT ![p].pc = "done", ![p].checkpointHashes = <<>>]
  /\ Finish(p, task[p].newListings)
  /\ UNCHANGED <<reload, consecutiveErrors, pass, byProvider, result,
                 providerVars, monitoringVars, serviceVars>>

\* Promise.all settles: the result is assembled and handed to onUserResult
PassReturns ==
  /\ pass = "running"
  /\ \A p \in Providers : task[p].pc \in {"off", "done"}
  /\ pass' = "returned"
  /\ result' = [allListings |-> Flat(byProvider), newListings |-> allNewListings,
                byProvider |-> byProvider, providerStatuses |-> providerStatuses]
  /\ UNCHANGED <<reload, checkpoints, consecutiveErrors, task, byProvider,
                 allNewListings, providerStatuses, setCalls, providerVars,
                 monitoringVars, serviceVars>>

\* the longest source list of each provider of the two-provider runs
MaxRawOf(p) == IF p = "A" THEN MaxFanRaw ELSE MaxBrowserRaw

\* One user with the two providers A and B.
Next ==
  \/ StartPass(Providers)
  \/ \E p \in Providers : ScrapeReturns(p, MaxRawOf(p))
  \/ \E p \in Providers : GetCheckpointsReturns(p)
  \/ \E p \in Providers : SetCheckpointsReturns(p)
  \/ PassReturns

Spec == Init /\ [][Next]_vars

\* One user with the single provider A and longer source lists.
NextEngine ==
  \/ StartPass({"A"})
  \/ ScrapeReturns("A", MaxRaw)
  \/ GetCheckpointsReturns("A")
  \/ SetCheckpointsReturns("A")
  \/ PassReturns

SpecEngine == Init /\ [][NextEngine]_vars

\* the source URLs a provider object can hold: none (undefined or '') or one
Urls == {"", "url"}

\* a filter that lets every provider through
isEnabledAlways(url) == TRUE

\* BaseProvider.isEnabled: !!this.url
isEnabled(url) == url # ""

\* providers.filter((p) => p.isEnabled())
enabledProviders(urls) == {p \in Providers : isEnabled(urls[p])}

\* scrapeForUser(user, providers) is called with the user's provider objects
scrapeForUserCalled == StartPass(enabledProviders(sources))

\* The user's provider objects as the caller built them, with or without a
\* source URL; the same objects serve every pass.
InitFanOut ==
  /\ browser = 0
  /\ sessions = {}
  /\ pages = 0
  /\ scrapeCall = NoCalls
  /\ now = 1
  /\ hashed = <<>>
  /\ intervalId = FALSE
  /\ startCall = "notCalled"
  /\ cycle = <<>>
  /\ process = NewProcess(TRUE)
  /\ reload = FALSE
  /\ checkpoints = [p \in Providers |-> <<>>]
  /\ consecutiveErrors = [p \in Providers |-> 0]
  /\ pass = "idle"
  /\ task = [p \in Providers |-> NoTask]
  /\ byProvider = <<>>
  /\ allNewListings = <<>>
  /\ providerStatuses = <<>>
  /\ result = NoResult
  /\ setCalls = [p \in Providers |-> 0]
  /\ provider = [variant |-> "none", consecutiveErrors |-> 0, streak |-> 0]
  /\ last = [called |-> FALSE]
  /\ sources \in [Providers -> Urls]
  /\ poll = NoPoll
  /\ extraction = [called |-> FALSE]
  /\ scraped = [called |-> FALSE]
  /\ passes = NoPasses
  /\ pairLog = NoPairLog
  /\ currentIterationErrors = <<>>
  /\ consecutiveFailedIterations = 0
  /\ notifiedForCurrentStreak = FALSE
  /\ errorAlertsEnabled = TRUE
  /\ monitor = [lastEnd |-> "none", streakAlerts |-> 0, alertedAt |-> 0,
                enabledAtThreshold |-> FALSE, alertsSent |-> 0, resets |-> FALSE,
                disabledInStreak |-> FALSE, recorded |-> {}, repeated |-> FALSE,
                reenabled |-> "no", alertedBefore |-> FALSE]

NextFanOut ==
  \/ scrapeForUserCalled
  \/ \E p \in Providers : ScrapeReturns(p, MaxRawOf(p))
  \/ \E p \in Providers : GetCheckpointsReturns(p)
  \/ \E p \in Providers : SetCheckpointsReturns(p)
  \/ PassReturns

\* One user whose two provider objects may lack a source URL.
SpecFanOut == InitFanOut /\ [][NextFanOut]_vars

\* A hash stored by an earlier run of the process for a listing that has left
\* the page since: no record of the source carries it any more.
StaleHash == NumHashes + 1

\* The process has started on a database that earlier runs have written: every
\* pair of the user has a stored checkpoint, and the user list is reloaded
\* from the database on every tick.
InitStored ==
  /\ browser = 0
  /\ sessions = {}
  /\ pages = 0
  /\ scrapeCall = NoCalls
  /\ now = 1
  /\ hashed = <<>>
  /\ intervalId = FALSE
  /\ startCall = "notCalled"
  /\ cycle = <<>>
  /\ process = NewProcess(TRUE)
  /\ reload = TRUE
  /\ checkpoints = [p \in Providers |-> <<StaleHash>>]
  /\ consecutiveErrors = [p \in Providers |-> 0]
  /\ pass = "idle"
  /\ task = [p \in Providers |-> NoTask]
  /\ byProvider = <<>>
  /\ allNewListings = <<>>
  /\ providerStatuses = <<>>
  /\ result = NoResult
  /\ setCalls = [p \in Providers |-> 0]
  /\ provider = [variant |-> "none", consecutiveErrors |-> 0, streak |-> 0]
  /\ last = [called |-> FALSE]
  /\ sources = AllEnabled
  /\ poll = NoPoll
  /\ extraction = [called |-> FALSE]
  /\ scraped = [called |-> FALSE]
  /\ passes = NoPasses
  /\ pairLog = NoPairLog
  /\ currentIterationErrors = <<>>
  /\ consecutiveFailedIterations = 0
  /\ notifiedForCurrentStreak = FALSE
  /\ errorAlertsEnabled = TRUE
  /\ monitor = [lastEnd |-> "none", streakAlerts |-> 0, alertedAt |-> 0,
                enabledAtThreshold |-> FALSE, alertsSent |-> 0, resets |-> FALSE,
                disabledInStreak |-> FALSE, recorded |-> {}, repeated |-> FALSE,
                reenabled |-> "no", alertedBefore |-> FALSE]

\* One user with the two providers A and B on a database written before.
SpecStored == InitStored /\ [][Next]_vars

\* ------------------------------------------------ one provider on its own
Variants == {"browser", "immoscout", "sparkasse", "planethome"}

Calls == {"ok", "throw"}

RawRecords == [hash : Hashes, valid : BOOLEAN]

SparkasseEnvs ==
  {[url |-> u, call |-> c, nextData |-> d, raw |-> r] :
     u \in BOOLEAN, c \in {"ok", "throw", "httpError"}, d \in BOOLEAN,
     r \in SeqsUpTo([hash : Hashes], MaxFanRaw)}

PlanetHomeEnvs ==
  {[url |-> u[1], locationId |-> u[2], loc |-> l[1], loc2 |-> l[2],
    fetch |-> f[1], fetch2 |-> f[2], invalidate |-> i, raw |-> r] :
     u \in BOOLEAN \X BOOLEAN,
     l \in {"ok", "none", "throw"} \X {"ok", "none", "throw"},
     f \in {"ok", "error", "locationError"} \X {"ok", "error"},
     i \in Calls,
     r \in SeqsUpTo([hash : Hashes], MaxFanRaw)}

VariantEnvs(variant) ==
  CASE variant = "browser" -> BrowserEnvs(MaxFanRaw)
    [] variant = "immoscout" -> ApiEnvs(MaxFanRaw)
    [] variant = "sparkasse" -> SparkasseEnvs
    [] variant = "planethome" -> PlanetHomeEnvs

\* history: some step of the call failed internally: the source URL does not
\* parse (where the provider parses it), a location lookup, a fetch, a browser
\* call or the decoding of the answer failed
InternalFailure(variant, env) ==
  CASE variant = "browser" -> ~env.url \/ env.call # "ok"
    [] variant = "immoscout" -> env.call # "ok"
    [] variant = "sparkasse" -> env.call # "ok" \/ ~env.nextData
    [] variant = "planethome" ->
         \/ ~env.url
         \/ env.url /\ env.locationId /\ env.loc # "ok"
         \/ env.url /\ env.locationId /\ env.loc = "ok" /\ env.fetch = "error"
         \/ /\ env.url /\ env.locationId /\ env.loc = "ok"
            /\ env.fetch = "locationError"
            /\ (env.invalidate # "ok" \/ env.loc2 # "ok" \/ env.fetch2 # "ok")

InitProvider ==
  /\ browser = 0
  /\ sessions = {}
  /\ pages = 0
  /\ scrapeCall = NoCalls
  /\ now = 1
  /\ hashed = <<>>
  /\ intervalId = FALSE
  /\ startCall = "notCalled"
  /\ cycle = <<>>
  /\ process = NewProcess(TRUE)
  /\ provider = [variant |-> "none", consecutiveErrors |-> 0, streak |-> 0]
  /\ last = [called |-> FALSE]
  /\ sources = AllEnabled
  /\ poll = NoPoll
  /\ extraction = [called |-> FALSE]
  /\ scraped = [called |-> FALSE]
  /\ passes = NoPasses
  /\ pairLog = NoPairLog
  /\ reload = FALSE
  /\ checkpoints = [p \in Providers |-> <<>>]
  /\ consecutiveErrors = [p \in Providers |-> 0]
  /\ pass = "idle"
  /\ task = [p \in Providers |-> NoTask]
  /\ byProvider = <<>>
  /\ allNewListings = <<>>
  /\ providerStatuses = <<>>
  /\ result = NoResult
  /\ setCalls = [p \in Providers |-> 0]
  /\ currentIterationErrors = <<>>
  /\ consecutiveFailedIterations = 0
  /\ notifiedForCurrentStreak = FALSE
  /\ errorAlertsEnabled = TRUE
  /\ monitor = [lastEnd |-> "none", streakAlerts |-> 0, alertedAt |-> 0,
                enabledAtThreshold |-> FALSE, alertsSent |-> 0, resets |-> FALSE,
                disabledInStreak |-> FALSE, recorded |-> {}, repeated |-> FALSE,
                reenabled |-> "no", alertedBefore |-> FALSE]

\* new XProvider(url, ...): the counter starts at 0
NewProvider(variant) ==
  /\ provider' = [variant |-> variant, consecutiveErrors |-> 0, streak |-> 0]
  /\ last' = [called |-> FALSE]
  /\ UNCHANGED <<passVars, monitoringVars, serviceVars>>

\* history: the source answered and held no record at all
ZeroRecords(variant, env) ==
  /\ Len(env.raw) = 0
  /\ CASE variant = "browser" -> env.url /\ env.call = "ok"
       [] variant = "immoscout" -> env.call = "ok"
       [] variant = "sparkasse" -> env.call = "ok" /\ env.nextData
       [] variant = "planethome" ->
            /\ env.url /\ env.locationId /\ env.loc = "ok"
            /\ \/ env.fetch = "ok"
               \/ /\ env.fetch = "locationError" /\ env.invalidate = "ok"
                  /\ env.loc2 = "ok" /\ env.fetch2 = "ok"

\* history: PlanetHomeProvider.scrape found isLocationError(result.error) on
\* its first fetchProperties
StaleLocation(variant, env) ==
  /\ variant = "planethome"
  /\ parseUrlParams(env) /\ env.loc = "ok" /\ env.fetch = "locationError"

\* a scrape that fetches a second time after any failed fetch
FetchAttemptsRetryAny(variant, env) ==
  CASE variant = "browser" ->
         IF ~env.url THEN 0 ELSE IF env.call # "ok" THEN 2 ELSE 1
    [] variant = "immoscout" -> IF env.call # "ok" THEN 2 ELSE 1
    [] variant = "sparkasse" -> IF env.call # "ok" THEN 2 ELSE 1
    [] variant = "planethome" ->
         IF ~parseUrlParams(env) \/ env.loc # "ok" THEN 0
         ELSE IF env.fetch = "ok" THEN 1
         ELSE IF env.invalidate = "ok" /\ env.loc2 = "ok" THEN 2
         ELSE 1

\* history: the requests for the listings of the source that one scrape call
\* makes: browserService.scrape, immoscout getListings, fetch(searchUrl),
\* fetchProperties
FetchAttempts(variant, env) ==
  CASE variant = "browser" -> IF ~env.url THEN 0 ELSE 1
    [] variant = "immoscout" -> 1
    [] variant = "sparkasse" -> 1
    [] variant = "planethome" ->
         IF ~parseUrlParams(env) \/ env.loc # "ok" THEN 0
         ELSE IF StaleLocation(variant, env)
                   /\ env.invalidate = "ok" /\ env.loc2 = "ok" THEN 2
         ELSE 1

\* history: the first of those requests failed
FirstFetchFailed(variant, env) ==
  CASE variant = "browser" -> env.url /\ env.call # "ok"
    [] variant = "immoscout" -> env.call # "ok"
    [] variant = "sparkasse" -> env.call # "ok"
    [] variant = "planethome" ->
         parseUrlParams(env) /\ env.loc = "ok" /\ env.fetch # "ok"

\* history: the failing calls in a row since the object was built or last
\* returned a listing; -1 once a call without failure and without listing
\* has come in between
NextStreak(streak, failure, listings) ==
  IF failure THEN (IF streak >= 0 THEN streak + 1 ELSE streak)
  ELSE IF Len(listings) > 0 THEN 0
  ELSE -1

\* one scrape(maxResults) call on the provider object
ScrapeCall(variant, r, env) ==
  /\ provider.variant = variant
  /\ r.errors <= MaxErrors
  /\ NextStreak(provider.streak, InternalFailure(variant, env), r.listings) <= MaxErrors
  /\ provider' = [provider EXCEPT
                    !.consecutiveErrors = r.errors,
                    !.streak = NextStreak(@, InternalFailure(variant, env), r.listings)]
  /\ last' = [called |-> TRUE, variant |-> variant,
              failure |-> InternalFailure(variant, env),
              zero |-> ZeroRecords(variant, env),
              before |-> provider.consecutiveErrors, errors |-> r.errors,
              listings |-> r.listings, threw |-> r.threw,
              fetches |-> FetchAttempts(variant, env),
              fetchFailed |-> FirstFetchFailed(variant, env),
              staleLocation |-> StaleLocation(variant, env)]
  /\ UNCHANGED <<passVars, monitoringVars, serviceVars>>

BrowserScrapeCall ==
  \E env \in BrowserEnvs(MaxFanRaw) :
    ScrapeCall("browser", BrowserScrape("P", env, provider.consecutiveErrors,
                                        maxResultsPerProvider), env)

ImmoScoutScrapeCall ==
  \E env \in ApiEnvs(MaxFanRaw) :
    ScrapeCall("immoscout", ImmoScoutScrape("P", env, provider.consecutiveErrors,
                                            maxResultsPerProvider), env)

SparkasseScrapeCall ==
  \E env \in SparkasseEnvs :
    ScrapeCall("sparkasse", SparkasseScrape("P", env, provider.consecutiveErrors,
                                            maxResultsPerProvider), env)

PlanetHomeScrapeCall ==
  \E env \in PlanetHomeEnvs :
    ScrapeCall("planethome", PlanetHomeScrape("P", env, provider.consecutiveErrors,
                                              maxResultsPerProvider), env)

NextProvider ==
  \/ \E variant \in Variants : NewProvider(variant)
  \/ BrowserScrapeCall
  \/ ImmoScoutScrapeCall
  \/ SparkasseScrapeCall
  \/ PlanetHomeScrapeCall

SpecProvider == InitProvider /\ [][NextProvider]_vars

\* ----------------------------------------------------- iteration tracker
ProviderNames == {"ImmoScout", "Immowelt"}
UserKeys == {"u1", "u2"}

EmptyMap == <<>>

\* Map.size
MapSize(m) == Cardinality(DOMAIN m)

\* existing.includes(userKey)
Includes(list, x) == \E i \in 1..Len(list) : list[i] = x

\* an alert condition without the already-notified flag
shouldNotifyEveryTime(enabled, failedIterations, notified) ==
  enabled /\ failedIterations >= CONSECUTIVE_FAILURES_THRESHOLD

\* an alert condition that does not look at the toggle
shouldNotifyWhenDisabled(enabled, failedIterations, notified) ==
  failedIterations >= CONSECUTIVE_FAILURES_THRESHOLD /\ ~notified

\* an alert condition that is met one failing cycle early
shouldNotifyEarly(enabled, failedIterations, notified) ==
  enabled /\ failedIterations >= CONSECUTIVE_FAILURES_THRESHOLD - 1 /\ ~notified

\* the condition under which onIterationEnd sends the aggregate alert
shouldNotify(enabled, failedIterations, notified) ==
  enabled /\ failedIterations >= CONSECUTIVE_FAILURES_THRESHOLD /\ ~notified

\* a reset of the counter that leaves the flag as it was
afterCleanIterationKeepsFlag(failedIterations, notified) ==
  [consecutiveFailedIterations |-> 0, notifiedForCurrentStreak |-> notified]

\* the else branch of onIterationEnd: counter and flag after an error-free cycle
afterCleanIteration(failedIterations, notified) ==
  [consecutiveFailedIterations |-> 0, notifiedForCurrentStreak |-> FALSE]

InitMonitoring ==
  /\ browser = 0
  /\ sessions = {}
  /\ pages = 0
  /\ scrapeCall = NoCalls
  /\ now = 1
  /\ hashed = <<>>
  /\ intervalId = FALSE
  /\ startCall = "notCalled"
  /\ cycle = <<>>
  /\ process = NewProcess(TRUE)
  /\ currentIterationErrors = EmptyMap
  /\ consecutiveFailedIterations = 0
  /\ notifiedForCurrentStreak = FALSE
  /\ errorAlertsEnabled = TRUE
  /\ monitor = [lastEnd |-> "none", streakAlerts |-> 0, alertedAt |-> 0,
                enabledAtThreshold |-> FALSE, alertsSent |-> 0, resets |-> FALSE,
                disabledInStreak |-> FALSE, recorded |-> {}, repeated |-> FALSE,
                reenabled |-> "no", alertedBefore |-> FALSE]
  /\ reload = FALSE
  /\ checkpoints = [p \in Providers |-> <<>>]
  /\ consecutiveErrors = [p \in Providers |-> 0]
  /\ pass = "idle"
  /\ task = [p \in Providers |-> NoTask]
  /\ byProvider = <<>>
  /\ allNewListings = <<>>
  /\ providerStatuses = <<>>
  /\ result = NoResult
  /\ setCalls = [p \in Providers |-> 0]
  /\ provider = [variant |-> "none", consecutiveErrors |-> 0, streak |-> 0]
  /\ last = [called |-> FALSE]
  /\ sources = AllEnabled
  /\ poll = NoPoll
  /\ extraction = [called |-> FALSE]
  /\ scraped = [called |-> FALSE]
  /\ passes = NoPasses
  /\ pairLog = NoPairLog

\* MonitoringService.onIterationStart; others: the variables outside the
\* monitoring service that the caller leaves alone in the same step
onIterationStartWith(others) ==
  /\ currentIterationErrors' = EmptyMap
  /\ monitor' = [monitor EXCEPT !.recorded = {}, !.repeated = FALSE]
  /\ UNCHANGED <<consecutiveFailedIterations, notifiedForCurrentStreak,
                 errorAlertsEnabled, others>>

\* MonitoringService.onIterationStart, called on its own
onIterationStart == onIterationStartWith(<<passVars, providerVars, serviceVars>>)

\* a logScrapingError that pushes the token without looking
recordErrorUnchecked(errors, name, userKey) ==
  LET existing == IF name \in DOMAIN errors THEN errors[name] ELSE <<>>
  IN  [n \in DOMAIN errors \cup {name} |->
         IF n = name THEN Append(existing, userKey) ELSE errors[n]]

\* the map update of logScrapingError: get(provider) || [], push unless
\* included, set
recordError(errors, name, userKey) ==
  LET existing == IF name \in DOMAIN errors THEN errors[name] ELSE <<>>
      updated == IF Includes(existing, userKey) THEN existing
                 ELSE Append(existing, userKey)
  IN  [n \in DOMAIN errors \cup {name} |->
         IF n = name THEN updated ELSE errors[n]]

\* MonitoringService.logScrapingError(provider, error, userId): the body has
\* no await, so a call runs from entry to the map update in one piece.
\* monitor.recorded: the pairs passed in since the map was cleared;
\* monitor.repeated: one of them was passed in again.
logScrapingErrorWith(name, userKey, others) ==
  /\ currentIterationErrors' = recordError(currentIterationErrors, name, userKey)
  /\ monitor' = [monitor EXCEPT
                   !.recorded = @ \cup {<<name, userKey>>},
                   !.repeated = @ \/ <<name, userKey>> \in monitor.recorded]
  /\ UNCHANGED <<consecutiveFailedIterations, notifiedForCurrentStreak,
                 errorAlertsEnabled, others>>

\* MonitoringService.logScrapingError, called on its own
logScrapingError(name, userKey) ==
  logScrapingErrorWith(name, userKey, <<passVars, providerVars, serviceVars>>)

\* MonitoringService.setErrorAlertsEnabled, called by the admin's /toggle_errors.
\* monitor.reenabled: "pending" once alerts are switched on with the counter
\* at or past the threshold, until the next failing cycle ends or alerts are
\* switched off again; monitor.alertedBefore: the flag at that moment.
setErrorAlertsEnabled(enabled) ==
  LET reenables == enabled /\ ~errorAlertsEnabled
                     /\ consecutiveFailedIterations >= CONSECUTIVE_FAILURES_THRESHOLD
  IN  /\ errorAlertsEnabled' = enabled
      /\ monitor' = [monitor EXCEPT
                       !.reenabled = IF reenables THEN "pending"
                                     ELSE IF ~enabled /\ @ = "pending" THEN "no"
                                     ELSE @,
                       !.alertedBefore = IF reenables THEN notifiedForCurrentStreak
                                         ELSE @]
      /\ UNCHANGED <<currentIterationErrors, consecutiveFailedIterations,
                     notifiedForCurrentStreak, passVars, providerVars, serviceVars>>

\* MonitoringService.onIterationEnd. monitor records what the call did:
\* lastEnd, the alerts of the running streak (streakAlerts), the counter value
\* at which the alert went out (alertedAt), whether alerts were enabled when the
\* counter reached the threshold, the alerts sent so far, and whether an
\* error-free cycle has ended yet (resets). monitor.reenabled: what the first
\* failing cycle that ended after alerts were switched on again did, "sent"
\* or "missed", and "repeated" once a later one of the streak sent an alert.
onIterationEndWith(others) ==
  IF MapSize(currentIterationErrors) > 0
  THEN LET count == consecutiveFailedIterations + 1
           notify == shouldNotify(errorAlertsEnabled, count, notifiedForCurrentStreak)
       IN  /\ count <= MaxIterations
           /\ notify => monitor.alertsSent < MaxAlerts
           /\ consecutiveFailedIterations' = count
           /\ notifiedForCurrentStreak' = (notify \/ notifiedForCurrentStreak)
           /\ monitor' =
                [lastEnd |-> "failed",
                 streakAlerts |-> monitor.streakAlerts + (IF notify THEN 1 ELSE 0),
                 alertedAt |-> IF notify /\ monitor.alertedAt = 0 THEN count
                               ELSE monitor.alertedAt,
                 enabledAtThreshold |->
                   IF count = CONSECUTIVE_FAILURES_THRESHOLD THEN errorAlertsEnabled
                   ELSE monitor.enabledAtThreshold,
                 alertsSent |-> monitor.alertsSent + (IF notify THEN 1 ELSE 0),
                 resets |-> monitor.resets,
                 disabledInStreak |-> (monitor.disabledInStreak \/ ~errorAlertsEnabled),
                 recorded |-> monitor.recorded, repeated |-> monitor.repeated,
                 reenabled |->
                   IF monitor.reenabled = "pending"
                   THEN (IF notify THEN "sent" ELSE "missed")
                   ELSE IF monitor.reenabled \in {"sent", "missed"} /\ notify
                        THEN "repeated" ELSE monitor.reenabled,
                 alertedBefore |-> monitor.alertedBefore]
           /\ UNCHANGED <<currentIterationErrors, errorAlertsEnabled, others>>
  ELSE LET after == afterCleanIteration(consecutiveFailedIterations,
                                        notifiedForCurrentStreak)
       IN  /\ consecutiveFailedIterations' = after.consecutiveFailedIterations
           /\ notifiedForCurrentStreak' = after.notifiedForCurrentStreak
           /\ monitor' = [monitor EXCEPT !.lastEnd = "clean", !.streakAlerts = 0,
                                         !.alertedAt = 0,
                                         !.enabledAtThreshold = FALSE,
                                         !.resets = TRUE,
                                         !.disabledInStreak = FALSE,
                                         !.reenabled = "no",
                                         !.alertedBefore = FALSE]
           /\ UNCHANGED <<currentIterationErrors, errorAlertsEnabled, others>>

\* MonitoringService.onIterationEnd, called on its own
onIterationEnd == onIterationEndWith(<<passVars, providerVars, serviceVars>>)

NextMonitoring ==
  \/ onIterationStart
  \/ \E name \in ProviderNames, userKey \in UserKeys : logScrapingError(name, userKey)
  \/ setErrorAlertsEnabled(~errorAlertsEnabled)
  \/ onIterationEnd

SpecMonitoring == InitMonitoring /\ [][NextMonitoring]_vars

\* ------------------------------------------ one search over polling cycles
\* One user with one browser provider (Immowelt), polled cycle after cycle.
\* reload: the users come from the database and start() was given the
\* userLoader, else they come from .env and the same objects serve every tick.
\* poll.failed: history, the scrape of the cycle failed; poll.failedCycles:
\* history, the cycles in a row in which it did; poll.status: the
\* ProviderStatus of the cycle's pass result.
InitPolling ==
  /\ browser = 0
  /\ sessions = {}
  /\ pages = 0
  /\ scrapeCall = NoCalls
  /\ now = 1
  /\ hashed = <<>>
  /\ intervalId = FALSE
  /\ startCall = "notCalled"
  /\ cycle = <<>>
  /\ process = NewProcess(TRUE)
  /\ reload \in BOOLEAN
  /\ checkpoints = [p \in Providers |-> <<>>]
  /\ consecutiveErrors = [p \in Providers |-> 0]
  /\ pass = "idle"
  /\ task = [p \in Providers |-> NoTask]
  /\ byProvider = <<>>
  /\ allNewListings = <<>>
  /\ providerStatuses = <<>>
  /\ result = NoResult
  /\ setCalls = [p \in Providers |-> 0]
  /\ provider = [variant |-> "browser", consecutiveErrors |-> 0, streak |-> 0]
  /\ last = [called |-> FALSE]
  /\ sources = AllEnabled
  /\ poll = [pc |-> "idle", failed |-> FALSE, failedCycles |-> 0,
             status |-> ProviderStatus("Immowelt", <<>>, 0)]
  /\ extraction = [called |-> FALSE]
  /\ scraped = [called |-> FALSE]
  /\ passes = NoPasses
  /\ pairLog = NoPairLog
  /\ currentIterationErrors = EmptyMap
  /\ consecutiveFailedIterations = 0
  /\ notifiedForCurrentStreak = FALSE
  /\ errorAlertsEnabled = TRUE
  /\ monitor = [lastEnd |-> "none", streakAlerts |-> 0, alertedAt |-> 0,
                enabledAtThreshold |-> FALSE, alertsSent |-> 0, resets |-> FALSE,
                disabledInStreak |-> FALSE, recorded |-> {}, repeated |-> FALSE,
                reenabled |-> "no", alertedBefore |-> FALSE]

\* ProviderFactory.createProvidersForConfig, called by loadUsersFromDatabase:
\* a new provider object, its counter at 0
createProvidersForConfig ==
  [variant |-> "browser", consecutiveErrors |-> 0, streak |-> 0]

\* A cycle begins: the timer callback has its users (rebuilt by userLoader()
\* when there is one), scrapeAllUsers calls onIterationStart and enters
\* scrapeForUser, whose callback calls provider.scrape.
cycleBegins ==
  /\ poll.pc = "idle"
  /\ provider' = IF reload THEN createProvidersForConfig ELSE provider
  /\ poll' = [poll EXCEPT !.pc = "scraping"]
  /\ onIterationStartWith(<<passVars, last, browserVars, hashVars, schedulerVars,
                            sources, contentVars, overlapVars>>)

\* provider.scrape settles and the callback builds the ProviderStatus. A
\* failure goes through handleError, which counts it and writes to the
\* provider's logger; the monitoring service is not called.
cycleScrapes ==
  /\ poll.pc = "scraping"
  /\ \E env \in BrowserEnvs(MaxFanRaw) :
       LET r == BrowserScrape("Immowelt", env, provider.consecutiveErrors,
                              maxResultsPerProvider)
           failed == Failed("Immowelt", env)
           failedCycles == IF failed THEN poll.failedCycles + 1 ELSE 0
       IN  /\ r.errors <= MaxErrors
           /\ failedCycles <= MaxErrors
           /\ provider' = [provider EXCEPT !.consecutiveErrors = r.errors]
           /\ poll' = [pc |-> "scraped", failed |-> failed,
                       failedCycles |-> failedCycles,
                       status |-> ProviderStatus("Immowelt", r.listings, r.errors)]
  /\ UNCHANGED <<monitoringVars, passVars, last, browserVars, hashVars,
                 schedulerVars, sources, contentVars, overlapVars>>

\* the loop over the users is through: scrapeAllUsers awaits onIterationEnd
cycleEnds ==
  /\ poll.pc = "scraped"
  /\ poll' = [poll EXCEPT !.pc = "idle"]
  /\ onIterationEndWith(<<passVars, providerVars, browserVars, hashVars,
                          schedulerVars, sources, contentVars, overlapVars>>)

NextPolling ==
  \/ cycleBegins
  \/ cycleScrapes
  \/ cycleEnds
  \/ setErrorAlertsEnabled(~errorAlertsEnabled)

SpecPolling == InitPolling /\ [][NextPolling]_vars

\* ------------------------------------------------------- browser service
InitBrowser ==
  /\ browser = 0
  /\ sessions = {}
  /\ pages = 0
  /\ scrapeCall = NoCalls
  /\ now = 1
  /\ hashed = <<>>
  /\ intervalId = FALSE
  /\ startCall = "notCalled"
  /\ cycle = <<>>
  /\ process = NewProcess(TRUE)
  /\ reload = FALSE
  /\ checkpoints = [p \in Providers |-> <<>>]
  /\ consecutiveErrors = [p \in Providers |-> 0]
  /\ pass = "idle"
  /\ task = [p \in Providers |-> NoTask]
  /\ byProvider = <<>>
  /\ allNewListings = <<>>
  /\ providerStatuses = <<>>
  /\ result = NoResult
  /\ setCalls = [p \in Providers |-> 0]
  /\ provider = [variant |-> "none", consecutiveErrors |-> 0, streak |-> 0]
  /\ last = [called |-> FALSE]
  /\ sources = AllEnabled
  /\ poll = NoPoll
  /\ extraction = [called |-> FALSE]
  /\ scraped = [called |-> FALSE]
  /\ passes = NoPasses
  /\ pairLog = NoPairLog
  /\ currentIterationErrors = <<>>
  /\ consecutiveFailedIterations = 0
  /\ notifiedForCurrentStreak = FALSE
  /\ errorAlertsEnabled = TRUE
  /\ monitor = [lastEnd |-> "none", streakAlerts |-> 0, alertedAt |-> 0,
                enabledAtThreshold |-> FALSE, alertsSent |-> 0, resets |-> FALSE,
                disabledInStreak |-> FALSE, recorded |-> {}, repeated |-> FALSE,
                reenabled |-> "no", alertedBefore |-> FALSE]

\* BrowserService.initialize up to its await: if (!this.browser) launch
needsLaunch(held) == held = 0

\* A caller moves on; everything else of the service stays.
CallMoves(c, pc) == scrapeCall' = [scrapeCall EXCEPT ![c] = pc]

\* BrowserService.scrape is called: initialize() runs up to puppeteer.launch
\* when no session is held, else the call goes on to newPage
scrapeCalled(c) ==
  /\ scrapeCall[c] = "idle"
  /\ CallMoves(c, IF needsLaunch(browser) THEN "launch" ELSE "newPage")
  /\ UNCHANGED <<browser, sessions, pages, hashVars, schedulerVars, passVars, pollVars, contentVars, overlapVars,
                 providerVars, monitoringVars>>

\* puppeteer.launch settles: the new session is assigned to this.browser,
\* or the scrape call rejects
launchSettles(c, ok) ==
  /\ scrapeCall[c] = "launch"
  /\ IF ok
     THEN LET session == Cardinality(sessions) + 1 IN
          /\ sessions' = sessions \cup {session}
          /\ browser' = session
          /\ CallMoves(c, "newPage")
     ELSE /\ CallMoves(c, "idle")
          /\ UNCHANGED <<browser, sessions>>
  /\ UNCHANGED <<pages, hashVars, schedulerVars, passVars, pollVars, contentVars, overlapVars, providerVars,
                 monitoringVars>>

\* this.browser.newPage() settles
newPageSettles(c, ok) ==
  /\ scrapeCall[c] = "newPage"
  /\ IF ok
     THEN /\ pages < MaxPages
          /\ pages' = pages + 1
          /\ CallMoves(c, "setUserAgent")
     ELSE /\ CallMoves(c, "idle")
          /\ UNCHANGED pages
  /\ UNCHANGED <<browser, sessions, hashVars, schedulerVars, passVars, pollVars, contentVars, overlapVars,
                 providerVars, monitoringVars>>

\* page.setUserAgent settles, before the try block is entered: a failure
\* rejects the call with the page still open
setUserAgentSettles(c, ok) ==
  /\ scrapeCall[c] = "setUserAgent"
  /\ CallMoves(c, IF ok THEN "goto" ELSE "idle")
  /\ UNCHANGED <<browser, sessions, pages, hashVars, schedulerVars, passVars, pollVars, contentVars, overlapVars,
                 providerVars, monitoringVars>>

\* page.goto (and the waitForSelector whose failure is swallowed) settles
gotoSettles(c, ok) ==
  /\ scrapeCall[c] = "goto"
  /\ CallMoves(c, IF ok THEN "evaluate" ELSE "close")
  /\ UNCHANGED <<browser, sessions, pages, hashVars, schedulerVars, passVars, pollVars, contentVars, overlapVars,
                 providerVars, monitoringVars>>

\* page.evaluate settles: either way the finally block is next
evaluateSettles(c, ok) ==
  /\ scrapeCall[c] = "evaluate"
  /\ CallMoves(c, "close")
  /\ UNCHANGED <<browser, sessions, pages, hashVars, schedulerVars, passVars, pollVars, contentVars, overlapVars,
                 providerVars, monitoringVars>>

\* finally: page.close() settles and the scrape call settles
pageCloseSettles(c) ==
  /\ scrapeCall[c] = "close"
  /\ pages' = pages - 1
  /\ CallMoves(c, "idle")
  /\ UNCHANGED <<browser, sessions, hashVars, schedulerVars, passVars, pollVars, contentVars, overlapVars,
                 providerVars, monitoringVars>>

NextBrowser ==
  \/ \E c \in Callers : scrapeCalled(c)
  \/ \E c \in Callers, ok \in BOOLEAN : launchSettles(c, ok)
  \/ \E c \in Callers, ok \in BOOLEAN : newPageSettles(c, ok)
  \/ \E c \in Callers, ok \in BOOLEAN : setUserAgentSettles(c, ok)
  \/ \E c \in Callers, ok \in BOOLEAN : gotoSettles(c, ok)
  \/ \E c \in Callers, ok \in BOOLEAN : evaluateSettles(c, ok)
  \/ \E c \in Callers : pageCloseSettles(c)

SpecBrowser == InitBrowser /\ [][NextBrowser]_vars

\* ------------------------------------------------------------ fingerprint
\* A string is the sequence of its characters; a raw field is null/undefined
\* (present FALSE) or a string, possibly the empty one.
Null == [present |-> FALSE, text |-> <<>>]

Str(text) == [present |-> TRUE, text |-> text]

FieldValues == {Null, Str(<<>>), Str(<<"1">>), Str(<<"2">>)}

\* crypto.createHash('sha256').update(text).digest('hex'): one digest per
\* text, different texts taken to have different digests
sha256(text) == [sha256 |-> text]

\* cleaned.join(',')
RECURSIVE Join(_)
Join(texts) ==
  IF Len(texts) = 0 THEN <<>>
  ELSE IF Len(texts) = 1 THEN texts[1]
  ELSE texts[1] \o <<",">> \o Join(Tail(texts))

\* Date.now().toString(), the clock of the runs staying below 10
DateNowToString(clock) == <<ToString(clock)>>

\* buildHash(...inputs): null, undefined and empty inputs are dropped; with
\* nothing left the digest is taken of the current time
buildHash(inputs, clock) ==
  LET kept == SelectSeq(inputs, LAMBDA i : i.present /\ Len(i.text) > 0)
      cleaned == [k \in 1..Len(kept) |-> kept[k].text]
  IN  IF Len(cleaned) = 0 THEN sha256(DateNowToString(clock))
      ELSE sha256(Join(cleaned))

\* the hash normalizeListing gives a raw record: buildHash(raw.id, raw.price)
listingHash(raw, clock) == buildHash(<<raw.id, raw.price>>, clock)

InitHash ==
  /\ now = 1
  /\ hashed = <<>>
  /\ browser = 0
  /\ sessions = {}
  /\ pages = 0
  /\ scrapeCall = NoCalls
  /\ intervalId = FALSE
  /\ startCall = "notCalled"
  /\ cycle = <<>>
  /\ process = NewProcess(TRUE)
  /\ reload = FALSE
  /\ checkpoints = [p \in Providers |-> <<>>]
  /\ consecutiveErrors = [p \in Providers |-> 0]
  /\ pass = "idle"
  /\ task = [p \in Providers |-> NoTask]
  /\ byProvider = <<>>
  /\ allNewListings = <<>>
  /\ providerStatuses = <<>>
  /\ result = NoResult
  /\ setCalls = [p \in Providers |-> 0]
  /\ provider = [variant |-> "none", consecutiveErrors |-> 0, streak |-> 0]
  /\ last = [called |-> FALSE]
  /\ sources = AllEnabled
  /\ poll = NoPoll
  /\ extraction = [called |-> FALSE]
  /\ scraped = [called |-> FALSE]
  /\ passes = NoPasses
  /\ pairLog = NoPairLog
  /\ currentIterationErrors = <<>>
  /\ consecutiveFailedIterations = 0
  /\ notifiedForCurrentStreak = FALSE
  /\ errorAlertsEnabled = TRUE
  /\ monitor = [lastEnd |-> "none", streakAlerts |-> 0, alertedAt |-> 0,
                enabledAtThreshold |-> FALSE, alertsSent |-> 0, resets |-> FALSE,
                disabledInStreak |-> FALSE, recorded |-> {}, repeated |-> FALSE,
                reenabled |-> "no", alertedBefore |-> FALSE]

\* time passes
Tick ==
  /\ now < MaxClock
  /\ now' = now + 1
  /\ UNCHANGED <<hashed, browserVars, schedulerVars, passVars, pollVars, contentVars, overlapVars, providerVars,
                 monitoringVars>>

\* normalizeListing(raw, source) is called, in this process or another one
\* with the same clock; the last two calls are kept
normalizeListingCalled(raw) ==
  /\ hashed' = (IF Len(hashed) = 2 THEN Tail(hashed) ELSE hashed)
                 \o <<[id |-> raw.id, price |-> raw.price,
                       hash |-> listingHash(raw, now)]>>
  /\ UNCHANGED <<now, browserVars, schedulerVars, passVars, pollVars, contentVars, overlapVars, providerVars,
                 monitoringVars>>

NextHash ==
  \/ Tick
  \/ \E id \in FieldValues, price \in FieldValues :
       normalizeListingCalled([id |-> id, price |-> price])

SpecHash == InitHash /\ [][NextHash]_vars

\* -------------------------------------------------------------- scheduler
\* The users of a cycle, in list order, each with the providers A and B.
UserList == <<"u1", "u2">>

Users == 1..Len(UserList)

\* scrapeForUser(user) is entered: every provider callback runs up to its
\* first await
Started == [p \in Providers |-> "running"]

\* A scrapeAllUsers run that has entered its loop: onIterationStart is done
\* and the first user's scrapeForUser is awaited.
EnteredCycle(kind) ==
  [kind |-> kind, pc |-> "users", user |-> 1,
   tasks |-> [u \in Users |-> IF u = 1 THEN Started
                              ELSE [p \in Providers |-> "idle"]],
   handed |-> <<>>]

\* A timer callback that awaits userLoader() before it enters scrapeAllUsers.
LoadingCycle ==
  [kind |-> "timer", pc |-> "loadUsers", user |-> 0,
   tasks |-> [u \in Users |-> [p \in Providers |-> "idle"]],
   handed |-> <<>>]

\* a Promise.all that settles with the first callback
scrapeForUserResolvedEarly(tasks) == \E p \in Providers : tasks[p] = "done"

\* await Promise.all(...) of scrapeForUser resolves: every callback has ended
scrapeForUserResolved(tasks) == \A p \in Providers : tasks[p] = "done"

\* await Promise.all(...) rejects: a callback has rejected
scrapeForUserRejected(tasks) == \E p \in Providers : tasks[p] = "failed"

InitScheduler ==
  /\ intervalId = FALSE
  /\ startCall = "notCalled"
  /\ cycle = <<>>
  /\ \E awaited \in BOOLEAN : process = NewProcess(awaited)
  /\ reload \in BOOLEAN
  /\ browser = 0
  /\ sessions = {}
  /\ pages = 0
  /\ scrapeCall = NoCalls
  /\ now = 1
  /\ hashed = <<>>
  /\ checkpoints = [p \in Providers |-> <<>>]
  /\ consecutiveErrors = [p \in Providers |-> 0]
  /\ pass = "idle"
  /\ task = [p \in Providers |-> NoTask]
  /\ byProvider = <<>>
  /\ allNewListings = <<>>
  /\ providerStatuses = <<>>
  /\ result = NoResult
  /\ setCalls = [p \in Providers |-> 0]
  /\ provider = [variant |-> "none", consecutiveErrors |-> 0, streak |-> 0]
  /\ last = [called |-> FALSE]
  /\ sources = AllEnabled
  /\ poll = NoPoll
  /\ extraction = [called |-> FALSE]
  /\ scraped = [called |-> FALSE]
  /\ passes = NoPasses
  /\ pairLog = NoPairLog
  /\ currentIterationErrors = <<>>
  /\ consecutiveFailedIterations = 0
  /\ notifiedForCurrentStreak = FALSE
  /\ errorAlertsEnabled = TRUE
  /\ monitor = [lastEnd |-> "none", streakAlerts |-> 0, alertedAt |-> 0,
                enabledAtThreshold |-> FALSE, alertsSent |-> 0, resets |-> FALSE,
                disabledInStreak |-> FALSE, recorded |-> {}, repeated |-> FALSE,
                reenabled |-> "no", alertedBefore |-> FALSE]

\* history: a cycle enters scrapeAllUsers; was stop() called before?
CycleStarts == [process EXCEPT !.startedAfterStop = @ \/ process.stopped]

\* No provider records an error with the monitoring service, so the
\* onIterationStart and onIterationEnd calls of scrapeAllUsers find and leave
\* its error map empty and its counter at 0.
\* WatchListingsUseCase.start is called: the initial scrapeAllUsers is entered
start ==
  /\ process.state = "running"
  /\ startCall = "notCalled"
  /\ startCall' = "initialPass"
  /\ cycle' = <<EnteredCycle("initial")>>
  /\ process' = CycleStarts
  /\ UNCHANGED <<intervalId, browserVars, hashVars, passVars, pollVars, contentVars, overlapVars, providerVars,
                 monitoringVars>>

\* a timer callback that skips its tick while an earlier cycle still runs
timerFiresUnlessBusy ==
  /\ process.state = "running"
  /\ intervalId
  /\ Len(cycle) < MaxCycles
  /\ \A c \in DOMAIN cycle : cycle[c].pc \notin {"loadUsers", "users"}
  /\ IF reload
     THEN /\ cycle' = Append(cycle, LoadingCycle)
          /\ UNCHANGED process
     ELSE /\ cycle' = Append(cycle, EnteredCycle("timer"))
          /\ process' = CycleStarts
  /\ UNCHANGED <<intervalId, startCall, browserVars, hashVars, passVars, pollVars, contentVars, overlapVars,
                 providerVars, monitoringVars>>

\* the setInterval callback fires: it awaits userLoader() when there is one,
\* else it enters scrapeAllUsers with the initial users
timerFires ==
  /\ process.state = "running"
  /\ intervalId
  /\ Len(cycle) < MaxCycles
  /\ IF reload
     THEN /\ cycle' = Append(cycle, LoadingCycle)
          /\ UNCHANGED process
     ELSE /\ cycle' = Append(cycle, EnteredCycle("timer"))
          /\ process' = CycleStarts
  /\ UNCHANGED <<intervalId, startCall, browserVars, hashVars, passVars, pollVars, contentVars, overlapVars,
                 providerVars, monitoringVars>>

\* userLoader() resolves: the callback enters scrapeAllUsers
usersLoaded(c) ==
  /\ process.state = "running"
  /\ cycle[c].pc = "loadUsers"
  /\ cycle' = [cycle EXCEPT ![c] = EnteredCycle("timer")]
  /\ process' = CycleStarts
  /\ UNCHANGED <<intervalId, startCall, browserVars, hashVars, passVars, pollVars, contentVars, overlapVars,
                 providerVars, monitoringVars>>

\* a provider callback of scrapeForUser runs to its end
callbackEnds(c, u, p) ==
  /\ process.state = "running"
  /\ cycle[c].tasks[u][p] = "running"
  /\ cycle' = [cycle EXCEPT ![c].tasks[u][p] = "done"]
  /\ UNCHANGED <<intervalId, startCall, process, browserVars, hashVars, passVars, pollVars, contentVars, overlapVars,
                 providerVars, monitoringVars>>

\* getCheckpoints or setCheckpoints rejects inside a provider callback
repositoryFails(c, u, p) ==
  /\ process.state = "running"
  /\ cycle[c].tasks[u][p] = "running"
  /\ cycle' = [cycle EXCEPT ![c].tasks[u][p] = "failed"]
  /\ process' = [process EXCEPT !.repositoryFailed = TRUE]
  /\ UNCHANGED <<intervalId, startCall, browserVars, hashVars, passVars, pollVars, contentVars, overlapVars,
                 providerVars, monitoringVars>>

\* scrapeForUser resolves: the result is handed to onUserResult, then the
\* loop goes on to the next user or, after the last one, scrapeAllUsers
\* returns; start() then arms the timer
userResolves(c) ==
  /\ process.state = "running"
  /\ cycle[c].pc = "users"
  /\ scrapeForUserResolved(cycle[c].tasks[cycle[c].user])
  /\ LET u == cycle[c].user
         handed == Append(cycle[c].handed, u)
     IN  IF u < Len(UserList)
         THEN /\ cycle' = [cycle EXCEPT ![c].user = u + 1,
                                        ![c].tasks[u + 1] = Started,
                                        ![c].handed = handed]
              /\ UNCHANGED <<intervalId, startCall>>
         ELSE /\ cycle' = [cycle EXCEPT ![c].pc = "done", ![c].handed = handed]
              /\ IF cycle[c].kind = "initial"
                 THEN intervalId' = TRUE /\ startCall' = "returned"
                 ELSE UNCHANGED <<intervalId, startCall>>
  /\ UNCHANGED <<process, browserVars, hashVars, passVars, pollVars, contentVars, overlapVars, providerVars,
                 monitoringVars>>

\* scrapeForUser rejects and with it scrapeAllUsers. The initial pass rejects
\* start(): awaited from App.run, the error reaches main().catch, which calls
\* logCriticalError and exits. From a timer callback nothing awaits the
\* promise: the rejection is unhandled, and the runtime either ends the
\* process or only warns (crashed).
userRejects(c, crashed) ==
  /\ process.state = "running"
  /\ cycle[c].pc = "users"
  /\ scrapeForUserRejected(cycle[c].tasks[cycle[c].user])
  /\ cycle' = [cycle EXCEPT ![c].pc = "rejected"]
  /\ startCall' = IF cycle[c].kind = "initial" THEN "rejected" ELSE startCall
  /\ process' =
       IF cycle[c].kind = "initial" /\ process.awaited
       THEN [process EXCEPT !.critical = TRUE, !.state = "exited"]
       ELSE [process EXCEPT !.unhandled = TRUE,
                            !.state = IF crashed THEN "exited" ELSE "running"]
  /\ UNCHANGED <<intervalId, browserVars, hashVars, passVars, pollVars, contentVars, overlapVars, providerVars,
                 monitoringVars>>

\* WatchListingsUseCase.stop, called once start() has been called: the timer
\* is cleared if it has been armed
stop ==
  /\ process.state = "running"
  /\ startCall # "notCalled"
  /\ ~process.stopped
  /\ intervalId' = FALSE
  /\ process' = [process EXCEPT !.stopped = TRUE]
  /\ UNCHANGED <<startCall, cycle, browserVars, hashVars, passVars, pollVars, contentVars, overlapVars, providerVars,
                 monitoringVars>>

NextScheduler ==
  \/ start
  \/ timerFires
  \/ \E c \in DOMAIN cycle : usersLoaded(c)
  \/ \E c \in DOMAIN cycle, u \in Users, p \in Providers : callbackEnds(c, u, p)
  \/ \E c \in DOMAIN cycle, u \in Users, p \in Providers : repositoryFails(c, u, p)
  \/ \E c \in DOMAIN cycle : userResolves(c)
  \/ \E c \in DOMAIN cycle, crashed \in BOOLEAN : userRejects(c, crashed)
  \/ stop

SpecScheduler == InitScheduler /\ [][NextScheduler]_vars

\* ------------------------------------ polling cycles and their errors
\* The scrapeAllUsers runs of the timer, each between its onIterationStart
\* and its onIterationEnd, with providers that report their failures to the
\* monitoring service. logged: history, an error was recorded while the run
\* was in its loop; endedClean: history, its onIterationEnd found no error.
InitIterations ==
  /\ browser = 0
  /\ sessions = {}
  /\ pages = 0
  /\ scrapeCall = NoCalls
  /\ now = 1
  /\ hashed = <<>>
  /\ intervalId = TRUE
  /\ startCall = "returned"
  /\ cycle = <<>>
  /\ process = NewProcess(TRUE)
  /\ currentIterationErrors = EmptyMap
  /\ consecutiveFailedIterations = 0
  /\ notifiedForCurrentStreak = FALSE
  /\ errorAlertsEnabled = TRUE
  /\ monitor = [lastEnd |-> "none", streakAlerts |-> 0, alertedAt |-> 0,
                enabledAtThreshold |-> FALSE, alertsSent |-> 0, resets |-> FALSE,
                disabledInStreak |-> FALSE, recorded |-> {}, repeated |-> FALSE,
                reenabled |-> "no", alertedBefore |-> FALSE]
  /\ reload = FALSE
  /\ checkpoints = [p \in Providers |-> <<>>]
  /\ consecutiveErrors = [p \in Providers |-> 0]
  /\ pass = "idle"
  /\ task = [p \in Providers |-> NoTask]
  /\ byProvider = <<>>
  /\ allNewListings = <<>>
  /\ providerStatuses = <<>>
  /\ result = NoResult
  /\ setCalls = [p \in Providers |-> 0]
  /\ provider = [variant |-> "none", consecutiveErrors |-> 0, streak |-> 0]
  /\ last = [called |-> FALSE]
  /\ sources = AllEnabled
  /\ poll = NoPoll
  /\ extraction = [called |-> FALSE]
  /\ scraped = [called |-> FALSE]
  /\ passes = NoPasses
  /\ pairLog = NoPairLog

\* the timer fires and scrapeAllUsers is entered: onIterationStart, then the
\* first user's scrapeForUser is awaited
scrapeAllUsersEntered ==
  /\ Len(cycle) < MaxCycles
  /\ cycle' = Append(cycle, [pc |-> "users", logged |-> FALSE, endedClean |-> FALSE])
  /\ onIterationStartWith(<<intervalId, startCall, process, passVars, providerVars,
                            browserVars, hashVars, pollVars, contentVars,
                            overlapVars>>)

\* a provider scraped for a user of run c fails and records the error
providerLogsError(c, name, userKey) ==
  /\ cycle[c].pc = "users"
  /\ cycle' = [cycle EXCEPT ![c].logged = TRUE]
  /\ logScrapingErrorWith(name, userKey,
                          <<intervalId, startCall, process, passVars, providerVars,
                            browserVars, hashVars, pollVars, contentVars,
                            overlapVars>>)

\* the loop of run c is through: onIterationEnd, then scrapeAllUsers returns
scrapeAllUsersReturns(c) ==
  /\ cycle[c].pc = "users"
  /\ cycle' = [cycle EXCEPT
                 ![c].pc = "done",
                 ![c].endedClean = MapSize(currentIterationErrors) = 0]
  /\ onIterationEndWith(<<intervalId, startCall, process, passVars, providerVars,
                          browserVars, hashVars, pollVars, contentVars,
                          overlapVars>>)

NextIterations ==
  \/ scrapeAllUsersEntered
  \/ \E c \in DOMAIN cycle, name \in ProviderNames, userKey \in UserKeys :
       providerLogsError(c, name, userKey)
  \/ \E c \in DOMAIN cycle : scrapeAllUsersReturns(c)

SpecIterations == InitIterations /\ [][NextIterations]_vars

\* ------------------------------------------- the extraction of one page
\* the containers of a page that one evaluation looks at
MaxCards == 2

\* field value || ...: a string that is present and not empty
truthy(value) == value.present /\ value.text # <<>>

\* What a container holds for one expression of the field map. el: the
\* lookup of the element throws (a selector the page rejects), finds nothing,
\* or finds an element; content: of a found element, the attribute asked for
\* (Null when absent) or the text content with newlines replaced and trimmed.
Cells ==
  {[el |-> "throws", content |-> Null], [el |-> "none", content |-> Null]}
    \cup {[el |-> "found", content |-> c] : c \in {Null, Str(<<>>), Str(<<"x">>)}}

\* the field map of a provider: each expression reads an attribute
\* (selector@attr) or the text of the element
crawlFields == [title |-> "text", link |-> "attr"]

Cards == [DOMAIN crawlFields -> Cells]

\* a loop body without try and catch: the exception leaves the evaluation
extractFieldUncaught(kind, cell) ==
  IF cell.el = "throws" THEN [value |-> Null, threw |-> TRUE]
  ELSE IF cell.el = "none" THEN [value |-> Null, threw |-> FALSE]
  ELSE IF kind = "attr" THEN [value |-> cell.content, threw |-> FALSE]
  ELSE [value |-> IF truthy(cell.content) THEN cell.content ELSE Null,
        threw |-> FALSE]

\* the body of the loop over the field map, for one key: try { ... } catch
\* { result[key] = null }; threw: an exception leaves the loop body
extractField(kind, cell) ==
  IF cell.el = "throws" THEN [value |-> Null, threw |-> FALSE]
  ELSE IF cell.el = "none" THEN [value |-> Null, threw |-> FALSE]
  ELSE IF kind = "attr" THEN [value |-> cell.content, threw |-> FALSE]
  ELSE [value |-> IF truthy(cell.content) THEN cell.content ELSE Null,
        threw |-> FALSE]

\* page.evaluate(...): Array.from(cards).map(card => result); the call
\* rejects when an exception leaves the callback
evaluate(cards) ==
  LET fields == [i \in 1..Len(cards) |->
                   [key \in DOMAIN crawlFields |->
                      extractField(crawlFields[key], cards[i][key])]]
  IN  [failed |-> \E i \in 1..Len(cards), key \in DOMAIN crawlFields :
                    fields[i][key].threw,
       listings |-> [i \in 1..Len(cards) |->
                       [key \in DOMAIN crawlFields |-> fields[i][key].value]]]

\* A page has been loaded; its containers are what the site serves.
InitExtract ==
  /\ browser = 0
  /\ sessions = {}
  /\ pages = 0
  /\ scrapeCall = NoCalls
  /\ now = 1
  /\ hashed = <<>>
  /\ intervalId = FALSE
  /\ startCall = "notCalled"
  /\ cycle = <<>>
  /\ process = NewProcess(TRUE)
  /\ reload = FALSE
  /\ checkpoints = [p \in Providers |-> <<>>]
  /\ consecutiveErrors = [p \in Providers |-> 0]
  /\ pass = "idle"
  /\ task = [p \in Providers |-> NoTask]
  /\ byProvider = <<>>
  /\ allNewListings = <<>>
  /\ providerStatuses = <<>>
  /\ result = NoResult
  /\ setCalls = [p \in Providers |-> 0]
  /\ provider = [variant |-> "none", consecutiveErrors |-> 0, streak |-> 0]
  /\ last = [called |-> FALSE]
  /\ sources = AllEnabled
  /\ poll = NoPoll
  /\ \E cards \in SeqsUpTo(Cards, MaxCards) :
       extraction = [called |-> FALSE, cards |-> cards]
  /\ scraped = [called |-> FALSE]
  /\ passes = NoPasses
  /\ pairLog = NoPairLog
  /\ currentIterationErrors = <<>>
  /\ consecutiveFailedIterations = 0
  /\ notifiedForCurrentStreak = FALSE
  /\ errorAlertsEnabled = TRUE
  /\ monitor = [lastEnd |-> "none", streakAlerts |-> 0, alertedAt |-> 0,
                enabledAtThreshold |-> FALSE, alertsSent |-> 0, resets |-> FALSE,
                disabledInStreak |-> FALSE, recorded |-> {}, repeated |-> FALSE,
                reenabled |-> "no", alertedBefore |-> FALSE]

\* the page.evaluate call of BrowserService.scrape settles
pageEvaluated ==
  /\ ~extraction.called
  /\ extraction' = [called |-> TRUE, cards |-> extraction.cards,
                    failed |-> evaluate(extraction.cards).failed,
                    listings |-> evaluate(extraction.cards).listings]
  /\ UNCHANGED <<passVars, providerVars, monitoringVars, browserVars, hashVars,
                 schedulerVars, pollVars, scraped, overlapVars>>

NextExtract == pageEvaluated

SpecExtract == InitExtract /\ [][NextExtract]_vars

\* ------------------------------------- the listings of one scrape call
\* the raw records one source answer holds
MaxRecords == 3

\* the largest maxResults a scrape call is given
MaxResultsArg == 2

\* Links as the sources emit them, as text in pieces: a path, a URL with its
\* scheme, the same URL-encoded, a URL put together from a missing part.
RelativeLink == <<"/expose">>
AbsoluteLink == <<"https:", "/expose">>
EncodedLink == <<"https%3A", "/expose">>
UndefinedLink == <<"https:", "undefined">>

RawLinks ==
  {Null, Str(RelativeLink), Str(AbsoluteLink), Str(EncodedLink), Str(UndefinedLink)}

\* what a raw record holds besides its fingerprint: the link, and whether it
\* has a title or a price
RawFields == [link : RawLinks, titleOrPrice : BOOLEAN]

\* the raw records of an answer, fingerprinted by their place in it
Fingerprinted(fields) ==
  [i \in 1..Len(fields) |->
     [hash |-> i, link |-> fields[i].link, titleOrPrice |-> fields[i].titleOrPrice]]

\* String.prototype.startsWith('http')
startsWithHttp(text) == Len(text) > 0 /\ text[1] \in {"https:", "https%3A"}

\* String.prototype.includes('undefined')
includesUndefined(text) == \E i \in 1..Len(text) : text[i] = "undefined"

decodeURIComponent(text) ==
  [i \in 1..Len(text) |-> IF text[i] = "https%3A" THEN "https:" ELSE text[i]]

\* BaseProvider.isValidListing, field by field
isValidListingFields(raw) ==
  truthy(raw.link) /\ ~includesUndefined(raw.link.text) /\ raw.titleOrPrice

\* BaseProvider.normalizeListing: link: raw.link || ''
normalizeLink(raw) == IF truthy(raw.link) THEN raw.link.text ELSE <<>>

\* The provider variants by what they do to the link: Kleinanzeigen (and
\* WgGesucht, Immowelt) put their domain before a link that does not start
\* with http, Immonet decodes it, ImmoScout (and Deutsche Bank) pass on what
\* the API record holds, Sparkasse (and PlanetHome) build it from the id.
ListingVariants == {"Kleinanzeigen", "Immonet", "ImmoScout", "Sparkasse"}

BrowserVariants == {"Kleinanzeigen", "Immonet"}

\* transformListing / transformEstate of the variant
transformListing(variant, raw) ==
  LET link == normalizeLink(raw) IN
  [hash |-> raw.hash, source |-> variant,
   link |-> CASE variant = "Kleinanzeigen" ->
                   IF link # <<>> /\ ~startsWithHttp(link)
                   THEN <<"https:", "//www.kleinanzeigen.de">> \o link ELSE link
              [] variant = "Immonet" ->
                   IF link # <<>> THEN decodeURIComponent(link) ELSE link
              [] variant = "ImmoScout" -> link
              [] variant = "Sparkasse" -> <<"https:", "//immobilien.sparkasse.de/expose/">>]

\* a scrape that cuts the list before it filters
listingsOfCutFirst(variant, rawListings, maxResults) ==
  LET validListings ==
        IF variant \in BrowserVariants
        THEN SelectSeq(Slice(rawListings, maxResults), isValidListingFields)
        ELSE Slice(rawListings, maxResults)
  IN  [i \in 1..Len(validListings) |-> transformListing(variant, validListings[i])]

\* the list a scrape call returns for the raw records of its source:
\* filter (browser variants), slice(0, maxResults), map
listingsOf(variant, rawListings, maxResults) ==
  LET validListings ==
        IF variant \in BrowserVariants
        THEN SelectSeq(rawListings, isValidListingFields)
        ELSE rawListings
  IN  [i \in 1..Len(Slice(validListings, maxResults)) |->
         transformListing(variant, validListings[i])]

\* A provider of some variant is about to scrape a source that answers with
\* some raw records, asked for at most maxResults listings.
InitListing ==
  /\ browser = 0
  /\ sessions = {}
  /\ pages = 0
  /\ scrapeCall = NoCalls
  /\ now = 1
  /\ hashed = <<>>
  /\ intervalId = FALSE
  /\ startCall = "notCalled"
  /\ cycle = <<>>
  /\ process = NewProcess(TRUE)
  /\ reload = FALSE
  /\ checkpoints = [p \in Providers |-> <<>>]
  /\ consecutiveErrors = [p \in Providers |-> 0]
  /\ pass = "idle"
  /\ task = [p \in Providers |-> NoTask]
  /\ byProvider = <<>>
  /\ allNewListings = <<>>
  /\ providerStatuses = <<>>
  /\ result = NoResult
  /\ setCalls = [p \in Providers |-> 0]
  /\ provider = [variant |-> "none", consecutiveErrors |-> 0, streak |-> 0]
  /\ last = [called |-> FALSE]
  /\ sources = AllEnabled
  /\ poll = NoPoll
  /\ extraction = [called |-> FALSE]
  /\ \E variant \in ListingVariants, maxResults \in 0..MaxResultsArg,
        fields \in SeqsUpTo(RawFields, MaxRecords) :
       scraped = [called |-> FALSE, variant |-> variant, maxResults |-> maxResults,
                  rawListings |-> Fingerprinted(fields), listings |-> <<>>]
  /\ passes = NoPasses
  /\ pairLog = NoPairLog
  /\ currentIterationErrors = <<>>
  /\ consecutiveFailedIterations = 0
  /\ notifiedForCurrentStreak = FALSE
  /\ errorAlertsEnabled = TRUE
  /\ monitor = [lastEnd |-> "none", streakAlerts |-> 0, alertedAt |-> 0,
                enabledAtThreshold |-> FALSE, alertsSent |-> 0, resets |-> FALSE,
                disabledInStreak |-> FALSE, recorded |-> {}, repeated |-> FALSE,
                reenabled |-> "no", alertedBefore |-> FALSE]

\* scrape(maxResults) returns (an empty answer fails the call, which returns
\* the empty list as well)
scrapeReturned ==
  /\ ~scraped.called
  /\ scraped' = [scraped EXCEPT
                   !.called = TRUE,
                   !.listings = listingsOf(scraped.variant, scraped.rawListings,
                                           scraped.maxResults)]
  /\ UNCHANGED <<passVars, providerVars, monitoringVars, browserVars, hashVars,
                 schedulerVars, pollVars, extraction, overlapVars>>

NextListing == scrapeReturned

SpecListing == InitListing /\ [][NextListing]_vars

\* ------------------------------- one (user, provider) pair across cycles
\* the longest list a scrape of the pair returns
MaxPairRaw == 2

\* the empty passes counted before the first non-empty one
MaxEmptyPasses == 2

\* The pair (user, A) has no stored checkpoint. Polling cycles are started
\* by a timer that does not wait for the cycle before, so up to two cycles,
\* the slots, have a callback of the pair in flight.
InitPair ==
  /\ browser = 0
  /\ sessions = {}
  /\ pages = 0
  /\ scrapeCall = NoCalls
  /\ now = 1
  /\ hashed = <<>>
  /\ intervalId = FALSE
  /\ startCall = "notCalled"
  /\ cycle = <<>>
  /\ process = NewProcess(TRUE)
  /\ reload = FALSE
  /\ checkpoints = [p \in Providers |-> <<>>]
  /\ consecutiveErrors = [p \in Providers |-> 0]
  /\ pass = "idle"
  /\ task = [p \in Providers |-> NoTask]
  /\ byProvider = <<>>
  /\ allNewListings = <<>>
  /\ providerStatuses = <<>>
  /\ result = NoResult
  /\ setCalls = [p \in Providers |-> 0]
  /\ provider = [variant |-> "none", consecutiveErrors |-> 0, streak |-> 0]
  /\ last = [called |-> FALSE]
  /\ sources = AllEnabled
  /\ poll = NoPoll
  /\ extraction = [called |-> FALSE]
  /\ scraped = [called |-> FALSE]
  /\ passes = NoPasses
  /\ pairLog = NoPairLog
  /\ currentIterationErrors = <<>>
  /\ consecutiveFailedIterations = 0
  /\ notifiedForCurrentStreak = FALSE
  /\ errorAlertsEnabled = TRUE
  /\ monitor = [lastEnd |-> "none", streakAlerts |-> 0, alertedAt |-> 0,
                enabledAtThreshold |-> FALSE, alertsSent |-> 0, resets |-> FALSE,
                disabledInStreak |-> FALSE, recorded |-> {}, repeated |-> FALSE,
                reenabled |-> "no", alertedBefore |-> FALSE]

\* a callback of the pair that has not run to its end
InFlightPass(s) == passes[s].pc \notin {"off", "done"}

OtherSlot(s) == CHOOSE t \in Slots : t # s

\* a cycle reaches the pair: the callback runs up to provider.scrape, on the
\* provider object the cycle built from the saved URL
callbackStarts(s) ==
  /\ ~InFlightPass(s)
  /\ passes' = [t \in Slots |->
                  IF t = s
                  THEN [NoPass EXCEPT !.pc = "scrape", !.url = sources["A"],
                                      !.overlaps = InFlightPass(OtherSlot(s))]
                  ELSE [passes[t] EXCEPT !.overlaps = InFlightPass(t)]]
  /\ UNCHANGED <<passVars, providerVars, monitoringVars, browserVars, hashVars,
                 schedulerVars, pollVars, contentVars, pairLog>>

\* provider.scrape settles with some listings; getCheckpoints is issued
callbackScraped(s) ==
  /\ passes[s].pc = "scrape"
  /\ \E listings \in SeqsUpTo([hash : Hashes], MaxPairRaw) :
       passes' = [passes EXCEPT
                    ![s].pc = "getCheckpoints",
                    ![s].listings = listings,
                    ![s].firstOfUrl =
                       passes[s].url = sources["A"] /\ ~pairLog.urlScraped]
  /\ pairLog' = [pairLog EXCEPT
                   !.urlScraped = @ \/ passes[s].url = sources["A"]]
  /\ UNCHANGED <<passVars, providerVars, monitoringVars, browserVars, hashVars,
                 schedulerVars, pollVars, contentVars>>

\* getCheckpoints settles: findNewListings, then either setCheckpoints is
\* issued (a non-empty scrape) or the callback runs to its end
callbackGotCheckpoints(s) ==
  /\ passes[s].pc = "getCheckpoints"
  /\ LET checkpointHashes == checkpoints["A"]
         listings == passes[s].listings
         firstRun == Cardinality(SetOf(checkpointHashes)) = 0
     IN  /\ firstRun /\ listings = <<>> => pairLog.emptyPasses < MaxEmptyPasses
         /\ passes' =
              [passes EXCEPT
                 ![s].pc = IF updatesCheckpoint(listings)
                           THEN "setCheckpoints" ELSE "done",
                 ![s].firstRun = firstRun,
                 ![s].newListings = findNewListings(listings, SetOf(checkpointHashes))]
         /\ pairLog' =
              [pairLog EXCEPT
                 !.emptyPasses = IF firstRun /\ listings = <<>> THEN @ + 1 ELSE @,
                 !.firstRuns = IF firstRun /\ listings # <<>> THEN @ + 1 ELSE @,
                 !.lastDone = IF updatesCheckpoint(listings) THEN @ ELSE listings]
  /\ UNCHANGED <<passVars, providerVars, monitoringVars, browserVars, hashVars,
                 schedulerVars, pollVars, contentVars>>

\* setCheckpoints settles: the row is overwritten, the callback runs to its end
callbackSetCheckpoints(s) ==
  /\ passes[s].pc = "setCheckpoints"
  /\ checkpoints' = [checkpoints EXCEPT !["A"] = newCheckpoints(passes[s].listings)]
  /\ passes' = [passes EXCEPT ![s].pc = "done"]
  /\ pairLog' = [pairLog EXCEPT !.lastDone = passes[s].listings]
  /\ UNCHANGED <<reload, consecutiveErrors, pass, task, byProvider,
                 allNewListings, providerStatuses, result, setCalls,
                 providerVars, monitoringVars, browserVars, hashVars,
                 schedulerVars, pollVars, contentVars>>

\* the search URLs a user saves after the first one
SavedUrls == {"newUrl"}

\* TelegramBot.handleTextMessage up to its second database call:
\* db.setUserProvider settles, db.clearProviderCheckpoint is issued
setUserProvider(url) ==
  /\ pairLog.bot = "idle"
  /\ sources["A"] # url
  /\ sources' = [sources EXCEPT !["A"] = url]
  /\ pairLog' = [pairLog EXCEPT !.bot = "clearing", !.urlScraped = FALSE]
  /\ UNCHANGED <<passVars, providerVars, monitoringVars, browserVars, hashVars,
                 schedulerVars, poll, contentVars, passes>>

\* Database.clearProviderCheckpoint settles, for the handler that saves a
\* URL or for one of the other handlers that call it
clearProviderCheckpoint ==
  /\ checkpoints' = [checkpoints EXCEPT !["A"] = <<>>]
  /\ pairLog' = [pairLog EXCEPT !.firstRuns = 0, !.emptyPasses = 0,
                                !.bot = "idle"]
  /\ UNCHANGED <<reload, consecutiveErrors, pass, task, byProvider,
                 allNewListings, providerStatuses, result, setCalls,
                 providerVars, monitoringVars, browserVars, hashVars,
                 schedulerVars, pollVars, contentVars, passes>>

NextPair ==
  \/ \E s \in Slots : callbackStarts(s)
  \/ \E s \in Slots : callbackScraped(s)
  \/ \E s \in Slots : callbackGotCheckpoints(s)
  \/ \E s \in Slots : callbackSetCheckpoints(s)
  \/ \E url \in SavedUrls : setUserProvider(url)
  \/ clearProviderCheckpoint

SpecPair == InitPair /\ [][NextPair]_vars

\* The same pair while nobody saves a URL or clears the checkpoint.
NextOverlap ==
  \/ \E s \in Slots : callbackStarts(s)
  \/ \E s \in Slots : callbackScraped(s)
  \/ \E s \in Slots : callbackGotCheckpoints(s)
  \/ \E s \in Slots : callbackSetCheckpoints(s)

SpecOverlap == InitPair /\ [][NextOverlap]_vars

\* The same pair when every cycle ends before the next one starts.
NextConsecutive ==
  \/ callbackStarts(1)
  \/ callbackScraped(1)
  \/ callbackGotCheckpoints(1)
  \/ callbackSetCheckpoints(1)

SpecConsecutive == InitPair /\ [][NextConsecutive]_vars

\* -------------------------------------------- the in-memory repository
\* User ids and provider names as texts, character by character; some hold
\* the separator of the key.
RepoUsers == {<<"a">>, <<"a", ":", "b">>}

RepoProviders == {<<"c">>, <<"b", ":", "c">>}

RepoPairs == RepoUsers \X RepoProviders

\* InMemoryListingRepository.getKey: `${userId}:${provider}`
getKey(userId, name) == userId \o <<":">> \o name

\* String.prototype.startsWith
startsWith(text, prefix) ==
  Len(text) >= Len(prefix) /\ SubSeq(text, 1, Len(prefix)) = prefix

\* InMemoryListingRepository.getCheckpoints: get(key) ?? []
getCheckpoints(map, userId, name) ==
  IF getKey(userId, name) \in DOMAIN map THEN map[getKey(userId, name)] ELSE <<>>

\* what getCheckpoints returns for every pair
Answers(map) ==
  [pair \in RepoPairs |-> getCheckpoints(map, pair[1], pair[2])]

\* The repository of a fresh process: an empty Map.
InitRepository ==
  /\ browser = 0
  /\ sessions = {}
  /\ pages = 0
  /\ scrapeCall = NoCalls
  /\ now = 1
  /\ hashed = <<>>
  /\ intervalId = FALSE
  /\ startCall = "notCalled"
  /\ cycle = <<>>
  /\ process = NewProcess(TRUE)
  /\ currentIterationErrors = EmptyMap
  /\ consecutiveFailedIterations = 0
  /\ notifiedForCurrentStreak = FALSE
  /\ errorAlertsEnabled = TRUE
  /\ monitor = [lastEnd |-> "none", streakAlerts |-> 0, alertedAt |-> 0,
                enabledAtThreshold |-> FALSE, alertsSent |-> 0, resets |-> FALSE,
                disabledInStreak |-> FALSE, recorded |-> {}, repeated |-> FALSE,
                reenabled |-> "no", alertedBefore |-> FALSE]
  /\ reload = FALSE
  /\ checkpoints = EmptyMap
  /\ consecutiveErrors = [p \in Providers |-> 0]
  /\ pass = "idle"
  /\ task = [p \in Providers |-> NoTask]
  /\ byProvider = <<>>
  /\ allNewListings = <<>>
  /\ providerStatuses = <<>>
  /\ result = NoResult
  /\ setCalls = [p \in Providers |-> 0]
  /\ provider = [variant |-> "none", consecutiveErrors |-> 0, streak |-> 0]
  /\ last = [called |-> FALSE]
  /\ sources = AllEnabled
  /\ poll = NoPoll
  /\ extraction = [called |-> FALSE]
  /\ scraped = [called |-> FALSE]
  /\ passes = NoPasses
  /\ pairLog = NoPairLog

\* InMemoryListingRepository.setCheckpoints: set(key, hashes)
setCheckpoints(userId, name, hashes) ==
  /\ checkpoints' = [key \in DOMAIN checkpoints \cup {getKey(userId, name)} |->
                       IF key = getKey(userId, name) THEN hashes
                       ELSE checkpoints[key]]
  /\ last' = [called |-> TRUE, op |-> "setCheckpoints", userId |-> userId,
              name |-> name, before |-> Answers(checkpoints)]
  /\ UNCHANGED <<reload, consecutiveErrors, pass, task, byProvider,
                 allNewListings, providerStatuses, result, setCalls, provider,
                 monitoringVars, serviceVars>>

\* InMemoryListingRepository.clearUser: every key that starts with
\* `${userId}:` is deleted
clearUser(userId) ==
  /\ checkpoints' =
       [key \in {k \in DOMAIN checkpoints : ~startsWith(k, userId \o <<":">>)} |->
          checkpoints[key]]
  /\ last' = [called |-> TRUE, op |-> "clearUser", userId |-> userId,
              name |-> <<>>, before |-> Answers(checkpoints)]
  /\ UNCHANGED <<reload, consecutiveErrors, pass, task, byProvider,
                 allNewListings, providerStatuses, result, setCalls, provider,
                 monitoringVars, serviceVars>>

NextRepository ==
  \/ \E pair \in RepoPairs, h \in Hashes : setCheckpoints(pair[1], pair[2], <<h>>)
  \/ \E userId \in RepoUsers : clearUser(userId)

SpecRepository == InitRepository /\ [][NextRepository]_vars

\* ================================================================ claims
\* the hashes of the first min(k, n) listings, in scrape order
HashesOfFirst(listings, k) ==
  [i \in 1..(IF Len(listings) < k THEN Len(listings) ELSE k) |-> listings[i].hash]

IsPrefix(a, b) == Len(a) <= Len(b) /\ \A i \in 1..Len(a) : a[i] = b[i]

StatusOf(statuses, name) ==
  CHOOSE st \in {statuses[i] : i \in 1..Len(statuses)} : st.name = name

\* C1 (first-run confirmation): when the checkpoint read for a pair is empty
\* and the scrape is a non-empty list of n listings, the pass reports exactly
\* the first listing as new and the stored checkpoint after the pass is the
\* hashes of the first min(5, n) listings of the scrape, in scrape order.
C1_FirstRunConfirmation ==
  (pass = "returned" /\ task["A"].firstRun /\ task["A"].listings # <<>>)
    => /\ task["A"].newListings = <<task["A"].listings[1]>>
       /\ result.newListings = <<task["A"].listings[1]>>
       /\ checkpoints["A"] = HashesOfFirst(task["A"].listings, 5)

\* a first run over six listings (more than a checkpoint holds) that start
\* with two different hashes
C1_Witness ==
  /\ pass = "returned" /\ task["A"].firstRun
  /\ Len(task["A"].listings) = 6
  /\ task["A"].listings[1].hash # task["A"].listings[2].hash
  /\ Len(checkpoints["A"]) = 5

\* C2 (break at match): with a non-empty stored checkpoint the new listings
\* are the longest prefix of the scrape none of whose hashes is stored: the
\* walk stops at the first stored hash and drops everything after it.
C2_BreakAtMatch ==
  \A p \in Providers :
    (task[p].pc = "setCheckpoints" /\ task[p].checkpointHashes # <<>>)
      => LET stored == SetOf(task[p].checkpointHashes)
             new == task[p].newListings
             ls == task[p].listings
         IN  /\ IsPrefix(new, ls)
             /\ \A i \in 1..Len(new) : ls[i].hash \notin stored
             /\ Len(new) < Len(ls) => ls[Len(new) + 1].hash \in stored

\* the walk stopped at a stored hash and dropped a later listing whose hash
\* is not stored
C2_Witness ==
  \E p \in Providers :
    /\ task[p].pc = "setCheckpoints" /\ task[p].checkpointHashes # <<>>
    /\ Len(task[p].newListings) >= 1
    /\ \E j \in (Len(task[p].newListings) + 2)..Len(task[p].listings) :
         task[p].listings[j].hash \notin SetOf(task[p].checkpointHashes)

\* C3 (full replace on no match): with a non-empty stored checkpoint none of
\* whose hashes occurs in the scrape, every listing of the scrape (at most
\* maxResults of them) is new.
C3_FullReplaceOnNoMatch ==
  \A p \in Providers :
    (/\ task[p].pc = "setCheckpoints" /\ task[p].checkpointHashes # <<>>
     /\ \A i \in 1..Len(task[p].listings) :
          task[p].listings[i].hash \notin SetOf(task[p].checkpointHashes))
      => /\ task[p].newListings = task[p].listings
         /\ Len(task[p].listings) <= maxResultsPerProvider

\* six listings, more than a checkpoint holds, none of them stored
C3_Witness ==
  \E p \in Providers :
    /\ task[p].pc = "setCheckpoints" /\ task[p].checkpointHashes # <<>>
    /\ Len(task[p].listings) = 6
    /\ \A i \in 1..6 : task[p].listings[i].hash \notin SetOf(task[p].checkpointHashes)

\* C4 (checkpoint on failure): a step changes the stored checkpoint of a pair
\* only for a callback whose scrape returned at least one listing, and a
\* callback that ended with zero listings made no setCheckpoints call: the
\* checkpoint after such a pass is the one before it.
C4_CheckpointOnFailure ==
  /\ [][\A p \in Providers :
          checkpoints'[p] # checkpoints[p] => task[p].listings # <<>>]_vars
  /\ [](\A p \in Providers :
          (task[p].pc = "done" /\ task[p].listings = <<>>) => setCalls[p] = 0)

\* a failed scrape ended its callback and a good prior checkpoint is still stored
C4_Witness ==
  /\ pass = "returned" /\ task["A"].listings = <<>> /\ task["A"].failed
  /\ Len(checkpoints["A"]) = 5 /\ setCalls["A"] = 0

\* C5 (checkpoint overwrite): once the callback of a non-empty scrape has
\* ended, the stored checkpoint is exactly the hashes of the first min(5, n)
\* listings of that scrape, whatever was stored before and whether or not a
\* new listing was found; a stored checkpoint never has more than 5 entries.
C5_CheckpointOverwrite ==
  \A p \in Providers :
    /\ Len(checkpoints[p]) <= 5
    /\ (task[p].pc = "done" /\ task[p].listings # <<>>)
         => /\ checkpoints[p] = HashesOfFirst(task[p].listings, 5)
            /\ setCalls[p] = 1

\* a later run over six listings that found nothing new and still rewrote the
\* checkpoint
C5_Witness ==
  /\ task["A"].pc = "done" /\ ~task["A"].firstRun
  /\ Len(task["A"].listings) = 6 /\ task["A"].newListings = <<>>
  /\ task["A"].listings[6].hash # task["A"].listings[5].hash

\* the scenario of C6: A scraped a non-empty list on a first run and B's
\* underlying call failed in the same pass
IsolationScenario ==
  /\ pass = "returned"
  /\ task["A"].firstRun /\ task["A"].listings # <<>>
  /\ task["B"].failed

\* C6 as stated (provider isolation): in that scenario the pass result has
\* newListings == [a1], A healthy, B unhealthy with consecutiveErrors == 1.
C6_IsolationAsStated ==
  IsolationScenario
    => /\ result.newListings = <<task["A"].listings[1]>>
       /\ StatusOf(result.providerStatuses, "A").healthy
       /\ ~StatusOf(result.providerStatuses, "B").healthy
       /\ StatusOf(result.providerStatuses, "B").consecutiveErrors = 1

\* C6 as amended: as stated, except that B's consecutiveErrors is one more
\* than B's counter before the scrape: 1 for a provider object built for this
\* pass, more when the same object failed in the passes before. A's listings,
\* new-listing subset and checkpoint are what A's scrape alone determines,
\* under every interleaving of the two callbacks.
C6_Isolation ==
  /\ [](IsolationScenario
          => /\ result.newListings = <<task["A"].listings[1]>>
             /\ \E i \in 1..Len(result.byProvider) :
                  result.byProvider[i] = [name |-> "A", listings |-> task["A"].listings]
             /\ checkpoints["A"] = HashesOfFirst(task["A"].listings, 5)
             /\ Len(result.providerStatuses) = 2
             /\ StatusOf(result.providerStatuses, "A").healthy
             /\ ~StatusOf(result.providerStatuses, "B").healthy
             /\ StatusOf(result.providerStatuses, "B").consecutiveErrors >= 1
             /\ reload => StatusOf(result.providerStatuses, "B").consecutiveErrors = 1)
  /\ [][(task["B"].pc = "scrape" /\ task'["B"].pc = "getCheckpoints"
           /\ task'["B"].failed)
          => consecutiveErrors'["B"] = consecutiveErrors["B"] + 1]_vars

\* B finished first, with its second failure in a row, and A was unaffected
C6_Witness ==
  /\ IsolationScenario
  /\ Len(task["A"].listings) = 3
  /\ result.providerStatuses[1].name = "B"
  /\ result.providerStatuses[1].consecutiveErrors = 2

\* C7 (scrape never throws and counts every failure): a scrape call never
\* rejects, and when a step of it fails internally it returns the empty list
\* and the provider's consecutive-error counter is one higher than before.
C7_FailureIsCounted ==
  last.called
    => /\ ~last.threw
       /\ last.failure
            => last.listings = <<>> /\ last.errors = last.before + 1

C9_ResetAsStated ==
  /\ monitor.lastEnd = "clean"
       => consecutiveFailedIterations = 0 /\ ~notifiedForCurrentStreak
  /\ (monitor.resets /\ consecutiveFailedIterations >= 4)
       => monitor.streakAlerts = 1

\* C9 as amended: the reset as stated; the later run sends at most one new
\* alert, and exactly one when error alerts are enabled at the end of the
\* cycle in which its counter reaches 4.
C9_Reset ==
  /\ monitor.lastEnd = "clean"
       => consecutiveFailedIterations = 0 /\ ~notifiedForCurrentStreak
  /\ monitor.resets => monitor.streakAlerts <= 1
  /\ (monitor.resets /\ consecutiveFailedIterations >= 4
        /\ monitor.enabledAtThreshold)
       => monitor.streakAlerts = 1

\* a second streak, after an alert and a reset, sent its own alert
C9_Witness ==
  /\ monitor.resets /\ monitor.alertsSent = 2
  /\ monitor.streakAlerts = 1 /\ consecutiveFailedIterations >= 4

\* C10 (health of a status): every status of a pass has healthy exactly when
\* its consecutiveErrors is 0 and its lastScrapeCount is above 0, and carries
\* the count of its provider's scrape.
C10_Healthy ==
  /\ \A i \in 1..Len(providerStatuses) :
       /\ providerStatuses[i].healthy
            <=> (providerStatuses[i].consecutiveErrors = 0
                   /\ providerStatuses[i].lastScrapeCount > 0)
       /\ providerStatuses[i].lastScrapeCount =
            Len(task[providerStatuses[i].name].listings)
  /\ pass = "returned" => result.providerStatuses = providerStatuses

\* a provider that completed without error and returned nothing is unhealthy
C10_Witness ==
  /\ pass = "returned"
  /\ ~task["B"].failed
  /\ \E i \in 1..Len(result.providerStatuses) :
       /\ result.providerStatuses[i].name = "B"
       /\ result.providerStatuses[i].consecutiveErrors = 0
       /\ result.providerStatuses[i].lastScrapeCount = 0
       /\ ~result.providerStatuses[i].healthy

\* C11 (health transition of one provider): after n failing scrape calls in a
\* row that follow the provider's creation or a call that returned a listing,
\* the consecutive-error counter is n and the status built from the call is
\* unhealthy; a call that returns at least one listing leaves the counter at 0
\* and a healthy status.
C11_HealthTransition ==
  /\ provider.streak > 0
       => /\ provider.consecutiveErrors = provider.streak
          /\ ~ProviderStatus("P", last.listings, provider.consecutiveErrors).healthy
  /\ (last.called /\ Len(last.listings) > 0)
       => /\ provider.consecutiveErrors = 0
          /\ ProviderStatus("P", last.listings, provider.consecutiveErrors).healthy

\* C19 (zero results count as a failure): a scrape call whose source held no
\* record returns the empty list and leaves the consecutive-error counter one
\* higher than before the call, for every provider variant.
C19_ZeroResultsCounted ==
  (last.called /\ last.zero)
    => last.listings = <<>> /\ last.errors = last.before + 1

\* C14 (single shared browser session): at most one browser session is
\* launched and live at any time, also when several scrape calls are issued
\* while no session exists yet.
C14_SingleSession == Cardinality(sessions) <= 1

\* C15 (scoped page release): whenever no scrape call of the browser service
\* is in flight, no page is open.
C15_PagesReleased ==
  (\A c \in Callers : scrapeCall[c] = "idle") => pages = 0

\* C16 (per-cycle error map): whatever the order of the logScrapingError
\* calls since the map was cleared, the map holds for each provider name
\* exactly the distinct tokens recorded for it, each once, and no other name.
C16_ErrorMap ==
  /\ DOMAIN currentIterationErrors = {pair[1] : pair \in monitor.recorded}
  /\ \A name \in DOMAIN currentIterationErrors :
       LET users == currentIterationErrors[name] IN
       /\ SetOf(users) = {pair[2] : pair \in {q \in monitor.recorded : q[1] = name}}
       /\ \A i, j \in 1..Len(users) : users[i] = users[j] => i = j

\* both providers recorded both users, one pair of them more than once, and
\* the cycle ended
C16_Witness ==
  /\ Cardinality(monitor.recorded) = 4
  /\ monitor.repeated
  /\ monitor.lastEnd = "failed"
  /\ \A name \in ProviderNames : Len(currentIterationErrors[name]) = 2

\* C20 (threshold as documented): with error alerts enabled, the aggregate
\* alert has been sent by the end of the third failing iteration in a row.
C20_NotifiedAtThree ==
  (consecutiveFailedIterations >= 3 /\ ~monitor.disabledInStreak)
    => monitor.streakAlerts >= 1

\* C17 (fingerprint determinism): two raw records with the same id and the
\* same price, both possibly absent or empty, get the same hash whenever and
\* wherever they are hashed.
C17_SameFieldsSameHash ==
  \A i, j \in 1..Len(hashed) :
    (hashed[i].id = hashed[j].id /\ hashed[i].price = hashed[j].price)
      => hashed[i].hash = hashed[j].hash

\* C12 (fatal repository failure): when a getCheckpoints or setCheckpoints
\* call has failed in a polling cycle, the initial one or a timer-driven one,
\* and the error has come out of the cycle, it has been reported to the
\* admin as a critical error.
C12_RepositoryFailureReported ==
  (\E c \in DOMAIN cycle : cycle[c].pc = "rejected") => process.critical

\* C13 (stopping the scheduler): no polling cycle starts after stop() has
\* been called, also when stop() is called during the initial pass.
C13_NoCycleAfterStop == ~process.startedAfterStop

\* C18 (sequential users): within a cycle the scrape of a user has started
\* only when every provider callback of the user before it has ended and that
\* user's result has been handed to the callback; results are handed over in
\* list order.
C18_SequentialUsers ==
  \A c \in DOMAIN cycle :
    /\ \A i \in 1..Len(cycle[c].handed) : cycle[c].handed[i] = i
    /\ \A u \in Users :
         (u > 1 /\ \E p \in Providers : cycle[c].tasks[u][p] # "idle")
           => /\ \A p \in Providers : cycle[c].tasks[u - 1][p] = "done"
              /\ \E i \in 1..Len(cycle[c].handed) : cycle[c].handed[i] = u - 1

\* the second user is being scraped in one cycle while another cycle runs
C18_Witness ==
  \E c, d \in DOMAIN cycle :
    /\ c # d
    /\ cycle[c].pc = "users" /\ cycle[c].user = 2 /\ cycle[c].handed = <<1>>
    /\ cycle[c].tasks[2]["A"] = "done" /\ cycle[c].tasks[2]["B"] = "running"
    /\ cycle[d].pc = "users" /\ cycle[d].user = 1

\* the listings of one provider in a list, in the order of the list
OfSource(listings, p) == SelectSeq(listings, LAMBDA l : l.source = p)

\* the listings scraped for provider p, as the pass result holds them
ScrapedOf(p) ==
  (CHOOSE e \in SetOf(result.byProvider) : e.name = p).listings

\* C27 (order of newListings): in a pass result the new listings of each
\* provider form one contiguous block, and inside that block they stand in the
\* order of that provider's scrape (they are its leading listings); the order
\* of the blocks is the order in which the callbacks finished.
C27_BlockOrder ==
  pass = "returned"
    => /\ \A p \in Providers :
            IsPrefix(OfSource(result.newListings, p), ScrapedOf(p))
       /\ \A i \in 1..Len(result.newListings), k \in 1..Len(result.newListings) :
            (i < k /\ result.newListings[i].source = result.newListings[k].source)
              => \A j \in i..k :
                   result.newListings[j].source = result.newListings[i].source
       /\ \A i \in 1..Len(result.newListings), k \in 1..Len(result.newListings) :
            (i < k /\ result.newListings[i].source # result.newListings[k].source)
              => \E a \in 1..Len(result.providerStatuses),
                    b \in 1..Len(result.providerStatuses) :
                   /\ a < b
                   /\ result.providerStatuses[a].name = result.newListings[i].source
                   /\ result.providerStatuses[b].name = result.newListings[k].source

\* B's callback finished first: its new listing stands before the block of
\* A's three new listings, which differ among themselves
C27_Witness ==
  /\ pass = "returned"
  /\ Len(result.newListings) = 4
  /\ result.newListings[1].source = "B"
  /\ result.newListings[2].source = "A"
  /\ result.newListings[2].hash # result.newListings[3].hash
  /\ result.newListings[3].hash # result.newListings[4].hash

\* a cycle that has started and not yet ended
InFlight(c) == cycle[c].pc \in {"loadUsers", "users"}

\* C25 (no overlap guard): while the timer is armed the next tick fires
\* whether or not an earlier cycle is still running, so that two cycles can be
\* in flight at once.
C25_TickFiresDuringCycle ==
  (process.state = "running" /\ intervalId /\ Len(cycle) < MaxCycles
     /\ \E c \in DOMAIN cycle : InFlight(c))
    => ENABLED timerFires

\* two timer cycles are in flight and both have a callback running for the
\* same user and the same provider
C25_Witness ==
  \E c \in DOMAIN cycle, d \in DOMAIN cycle :
    /\ c < d
    /\ cycle[c].pc = "users" /\ cycle[d].pc = "users"
    /\ \E u \in Users, p \in Providers :
         cycle[c].tasks[u][p] = "running" /\ cycle[d].tasks[u][p] = "running"

Named(list, p) == {i \in 1..Len(list) : list[i].name = p}

\* the scraped lists of the providers of a sequence, one after the other
RECURSIVE ListsOf(_)
ListsOf(order) ==
  IF order = <<>> THEN <<>>
  ELSE task[Head(order)].listings \o ListsOf(Tail(order))

\* C26 (fan-out/join): a pass returns only when the callback of every provider
\* with a non-empty source URL has run to its end; each of these providers was
\* scraped exactly once and has exactly one ProviderStatus and one byProvider
\* entry (its scraped list) in the result; a provider without source URL was
\* not scraped and has neither; allListings is the per-provider lists one
\* after the other.
C26_FanOutJoin ==
  pass = "returned"
    => /\ \A p \in Providers :
            IF sources[p] # ""
            THEN /\ task[p].pc = "done"
                 /\ task[p].scrapes = 1
                 /\ Cardinality(Named(result.providerStatuses, p)) = 1
                 /\ Cardinality(Named(result.byProvider, p)) = 1
                 /\ \A i \in Named(result.byProvider, p) :
                      result.byProvider[i].listings = task[p].listings
                 /\ \A i \in Named(result.providerStatuses, p) :
                      result.providerStatuses[i].lastScrapeCount = Len(task[p].listings)
            ELSE /\ task[p].pc = "off"
                 /\ task[p].scrapes = 0
                 /\ Named(result.providerStatuses, p) = {}
                 /\ Named(result.byProvider, p) = {}
       /\ result.allListings =
            ListsOf([i \in 1..Len(result.byProvider) |-> result.byProvider[i].name])
       /\ Len(result.allListings) =
            Len(task["A"].listings) + Len(task["B"].listings)

\* B has no source URL; the pass over A alone returned A's three listings
C26_Witness ==
  /\ pass = "returned"
  /\ sources["A"] = "url" /\ sources["B"] = ""
  /\ Len(result.allListings) = 3
  /\ Len(result.providerStatuses) = 1

\* C23 (health accumulates across polling cycles): when the scrape of a search
\* has failed in three polling cycles in a row, the ProviderStatus of the third
\* cycle has consecutiveErrors == 3, also when the users and their providers
\* are reloaded from the database on every tick.
C23_HealthAccumulates ==
  (poll.pc = "scraped" /\ poll.failedCycles = 3)
    => poll.status.consecutiveErrors = 3

\* C24 (provider failures feed the iteration tracker): when the provider's
\* scrape has failed in a cycle, the cycle's error map has an entry under the
\* provider's name, and onIterationEnd counts the cycle as failed.
C24_FailureRecorded ==
  /\ (poll.pc = "scraped" /\ poll.failed)
       => "Immowelt" \in DOMAIN currentIterationErrors
  /\ (poll.pc = "idle" /\ poll.failed) => monitor.lastEnd = "failed"

\* C29 (per-field degradation in extraction): the evaluation does not fail
\* and returns one record per container; a field whose extraction throws is
\* null in that record, and every other field of that container and of the
\* other containers has the value its own element gives.
C29_FieldDegradesAlone ==
  extraction.called
    => /\ ~extraction.failed
       /\ Len(extraction.listings) = Len(extraction.cards)
       /\ \A i \in 1..Len(extraction.cards), key \in DOMAIN crawlFields :
            LET cell == extraction.cards[i][key] IN
            /\ cell.el = "throws" => extraction.listings[i][key] = Null
            /\ (cell.el = "found" /\ truthy(cell.content))
                 => extraction.listings[i][key] = cell.content

\* the title of the first container throws; its link and both fields of the
\* second container are extracted
C29_Witness ==
  /\ extraction.called
  /\ Len(extraction.cards) = 2
  /\ extraction.cards[1].title.el = "throws"
  /\ extraction.listings[1].title = Null
  /\ extraction.listings[1].link = Str(<<"x">>)
  /\ extraction.listings[2].title = Str(<<"x">>)
  /\ extraction.listings[2].link = Str(<<"x">>)

\* an absolute URL: it starts with its scheme
IsAbsoluteUrl(link) == Len(link) > 0 /\ link[1] = "https:"

\* C21 (absolute links): every listing a scrape returns has a link that is an
\* absolute URL, never empty and never a relative path, for every variant.
C21_AbsoluteLinks ==
  scraped.called
    => \A i \in 1..Len(scraped.listings) : IsAbsoluteUrl(scraped.listings[i].link)

\* the places of the structurally valid raw records up to place j
ValidUpTo(j) ==
  {k \in 1..j : isValidListingFields(scraped.rawListings[k])}

\* C22 (truncation): the list a scrape returns has at most maxResults
\* listings, in the order of the source; for the browser variants it is the
\* first maxResults structurally valid records of the page, for the others
\* the first maxResults records of the answer.
C22_Truncation ==
  scraped.called
    => LET n == Len(scraped.listings)
           place(i) == scraped.listings[i].hash
       IN  /\ n <= scraped.maxResults
           /\ \A i \in 1..n, j \in 1..n : i < j => place(i) < place(j)
           /\ IF scraped.variant \in BrowserVariants
              THEN /\ n = Min(scraped.maxResults,
                              Cardinality(ValidUpTo(Len(scraped.rawListings))))
                   /\ \A i \in 1..n :
                        /\ place(i) \in ValidUpTo(Len(scraped.rawListings))
                        /\ Cardinality(ValidUpTo(place(i))) = i
              ELSE /\ n = Min(scraped.maxResults, Len(scraped.rawListings))
                   /\ \A i \in 1..n : place(i) = i

\* a page of three records, the first of them invalid, asked for one
\* listing: the second record is returned alone
C22_Witness ==
  /\ scraped.called
  /\ scraped.variant = "Kleinanzeigen"
  /\ scraped.maxResults = 1
  /\ Len(scraped.rawListings) = 3
  /\ ValidUpTo(3) = {2, 3}
  /\ Len(scraped.listings) = 1
  /\ scraped.listings[1].hash = 2

\* C30 (first listing after empty scrapes): for a pair without a stored
\* checkpoint, after any number of passes whose scrape was empty, the first
\* pass with a non-empty scrape reports exactly one new listing, the newest,
\* and no later pass is treated as a first run until the checkpoint is
\* cleared.
C30_OneFirstRun ==
  /\ \A s \in Slots :
       (passes[s].pc \in {"setCheckpoints", "done"}
          /\ passes[s].firstRun /\ passes[s].listings # <<>>)
         => passes[s].newListings = <<passes[s].listings[1]>>
  /\ pairLog.firstRuns <= 1

\* C31 (idempotence of an unchanged scrape): when a pass of a pair scrapes
\* the same non-empty list, hash by hash, as the pass right before it, and
\* the two do not overlap, it reports no new listing, whatever the checkpoint
\* was before the first of the two.
C31_UnchangedScrape ==
  (passes[1].pc = "setCheckpoints" /\ passes[1].listings = pairLog.lastDone)
    => passes[1].newListings = <<>>

\* the second of two passes that both scraped the same two listings
C31_Witness ==
  /\ passes[1].pc = "setCheckpoints"
  /\ passes[1].listings = pairLog.lastDone
  /\ Len(passes[1].listings) = 2
  /\ passes[1].listings[1].hash # passes[1].listings[2].hash
  /\ passes[1].newListings = <<>>

\* the hashes a pass reported as new
Announced(s) == {passes[s].newListings[i].hash : i \in 1..Len(passes[s].newListings)}

\* C32 (no duplicate announcement under overlapping cycles): when two cycles
\* overlap and scrape the same list of a pair, no listing is reported as new
\* by both of them, also when both read the checkpoint before either writes.
C32_AnnouncedOnce ==
  \A s \in Slots, t \in Slots :
    (/\ s # t
     /\ passes[s].overlaps /\ passes[t].overlaps
     /\ passes[s].pc \in {"setCheckpoints", "done"}
     /\ passes[t].pc \in {"setCheckpoints", "done"}
     /\ passes[s].listings = passes[t].listings)
      => Announced(s) \cap Announced(t) = {}

\* C35 (changed search restarts as a first run): after the user saved a new
\* search URL for the pair, the first pass that scrapes the new URL finds an
\* empty checkpoint and reports at most one new listing, also when a scrape
\* of the old URL was in flight when the URL was saved.
C35_ChangedSearchFirstRun ==
  \A s \in Slots :
    (/\ passes[s].pc \in {"setCheckpoints", "done"}
     /\ passes[s].url \in SavedUrls
     /\ passes[s].firstOfUrl)
      => passes[s].firstRun /\ Len(passes[s].newListings) <= 1

\* while error alerts are disabled, every onIterationEnd of a cycle with
\* recorded errors adds one to the counter, sends no alert and leaves the
\* already-notified flag as it is
QuietWhileDisabled ==
  (~errorAlertsEnabled /\ MapSize(currentIterationErrors) > 0)
    => ~ENABLED (/\ onIterationEnd
                 /\ \/ monitor'.alertsSent # monitor.alertsSent
                    \/ notifiedForCurrentStreak' # notifiedForCurrentStreak
                    \/ consecutiveFailedIterations' # consecutiveFailedIterations + 1)

\* C36 as stated (alert toggle and the streak): disabled alerts keep
\* onIterationEnd quiet while the counter goes on; when alerts are switched on
\* again in the same streak after the threshold was passed, the next failing
\* cycle sends exactly one alert and no later cycle of the streak sends one.
C36_ToggleAsStated ==
  /\ QuietWhileDisabled
  /\ monitor.reenabled \notin {"missed", "repeated"}

\* C36 as amended: the same, where no alert of the streak had been sent when
\* alerts were switched on again; where one had been sent, the next failing
\* cycle sends none; either way the streak sends at most one alert.
C36_Toggle ==
  /\ QuietWhileDisabled
  /\ monitor.reenabled = "sent" => ~monitor.alertedBefore /\ monitor.streakAlerts = 1
  /\ monitor.reenabled = "missed" => monitor.alertedBefore /\ monitor.streakAlerts = 1
  /\ monitor.reenabled # "repeated"
  /\ ~monitor.alertedBefore => monitor.reenabled # "missed"

\* alerts were off when the counter reached 4, were switched on after that,
\* the fifth failing cycle sent the alert and the sixth sent none
C36_Witness ==
  /\ monitor.reenabled = "sent"
  /\ ~monitor.enabledAtThreshold
  /\ monitor.alertedAt = 5
  /\ consecutiveFailedIterations = 6
  /\ monitor.streakAlerts = 1

\* C37 (iteration tracker state): the already-notified flag is only set
\* with the counter at 4 or more, a counter of 0 comes with a cleared flag,
\* the counter is never negative, and no step changes it other than by
\* adding one or by resetting it to 0.
C37_TrackerState ==
  /\ notifiedForCurrentStreak => consecutiveFailedIterations >= 4
  /\ consecutiveFailedIterations = 0 => ~notifiedForCurrentStreak
  /\ consecutiveFailedIterations >= 0
  /\ ~ENABLED (/\ NextMonitoring
               /\ consecutiveFailedIterations'
                    \notin {consecutiveFailedIterations,
                            consecutiveFailedIterations + 1, 0})

\* a second streak, after a reset, went past the threshold and was notified
C37_Witness ==
  /\ monitor.resets
  /\ notifiedForCurrentStreak
  /\ consecutiveFailedIterations = 5

\* C33 (error attribution under overlapping cycles): a cycle in which an
\* error was recorded is not counted as error-free by its own onIterationEnd,
\* also when another cycle's onIterationStart ran while it was in its loop.
C33_ErrorsStayWithCycle ==
  \A c \in DOMAIN cycle :
    (cycle[c].pc = "done" /\ cycle[c].logged) => ~cycle[c].endedClean

\* C34 (start/end pairing): a polling cycle that called onIterationStart and
\* has left scrapeAllUsers has called onIterationEnd, also when a repository
\* call failed while its users were processed.
C34_StartEndPaired ==
  \A c \in DOMAIN cycle :
    cycle[c].pc \notin {"loadUsers", "users"} => cycle[c].pc = "done"

\* C38 (in-memory repository frame): clearUser(u) leaves no checkpoint of
\* user u and leaves what getCheckpoints returns for every other user as it
\* was; setCheckpoints for one pair leaves what getCheckpoints returns for
\* every other pair as it was, also for ids and names that hold a ':'.
C38_RepositoryFrame ==
  last.called
    => \A pair \in RepoPairs :
         LET answer == getCheckpoints(checkpoints, pair[1], pair[2]) IN
         /\ (last.op = "clearUser" /\ pair[1] = last.userId) => answer = <<>>
         /\ (last.op = "clearUser" /\ pair[1] # last.userId)
              => answer = last.before[pair]
         /\ (last.op = "setCheckpoints" /\ pair # <<last.userId, last.name>>)
              => answer = last.before[pair]

====
